---------------------------- MODULE Spec2Model ----------------------------
(***************************************************************************)
(* A model of backend_cli.py of PoEDynamicLootFilter: the command          *)
(* dispatcher DelegateFunctionCall, the Profile.changes compaction         *)
(* (AddFunctionToChangesDict, ConvertChangesDictToFunctionList,            *)
(* UpdateProfileChangesFile), the quoting of parameters and their          *)
(* tokenization by shlex.split.                                            *)
(*                                                                         *)
(* Strings are sequences of characters.  A character is a one-element TLA+ *)
(* string; an element of more than one letter ("set_currency_to_tier",     *)
(* "Chaos") stands for an unbroken run of ordinary word characters, which  *)
(* neither the quoting nor the tokenizer ever looks into.                  *)
(***************************************************************************)
EXTENDS Integers, Sequences, FiniteSets, TLC

VARIABLES
    q_input,        \* QuoteSpec: the string handed to QuoteStringIfRequired
    q_line,         \* QuoteSpec: the quoted form written to the changes file
    q_tokens,       \* QuoteSpec: what shlex.split returns for q_line
    q_pc,           \* QuoteSpec: "start" -> "quoted" -> "done"
    changes_dict,   \* TrieSpec: parsed_changes_dict of UpdateProfileChangesFile
    t_hist,         \* TrieSpec: the token lists merged so far, in order
    changes_file,   \* LogSpec: the lines of Profile.changes
    l_hist,         \* LogSpec: the commands handed to UpdateProfileChangesFile
    l_before,       \* LogSpec: the changes file before the last call
    l_ok,           \* LogSpec: whether the last call returned (TRUE) or raised
    out_filter,     \* the output filter file (the filter as last saved)
    cli_output,     \* backend_cli.output
    c_last,         \* the last invocation of backend_cli.py and what it did
    c_n             \* the number of invocations so far

vars == <<q_input, q_line, q_tokens, q_pc, changes_dict, t_hist,
          changes_file, l_hist, l_before, l_ok,
          out_filter, cli_output, c_last, c_n>>

q_vars == <<q_input, q_line, q_tokens, q_pc>>
t_vars == <<changes_dict, t_hist>>
l_vars == <<changes_file, l_hist, l_before, l_ok>>
c_vars == <<out_filter, cli_output, c_last, c_n>>

---------------------------------------------------------------------------
(* Characters                                                              *)

SP == " "
TAB == "\t"
SQ == "'"
DQ == "\""
BS == "\\"

\* shlex: whitespace = ' \t\r\n', quotes = '\'"', escape = '\\',
\* escapedquotes = '"' (posix mode, as shlex.split sets it up)
Whitespace == {SP, TAB}
Quotes == {SQ, DQ}

---------------------------------------------------------------------------
(* QuoteStringIfRequired, JoinParams                                       *)

\* '"' + s + '"' if s contains a space or a single quote, else s
QuoteStringIfRequired(input_string) ==
    IF \E i \in 1..Len(input_string) : input_string[i] = SP \/ input_string[i] = SQ
    THEN <<DQ>> \o input_string \o <<DQ>>
    ELSE input_string

RECURSIVE JoinParams(_)
\* ' '.join(QuoteStringIfRequired(param) for param in params_list)
JoinParams(params_list) ==
    IF params_list = <<>> THEN <<>>
    ELSE IF Len(params_list) = 1 THEN QuoteStringIfRequired(params_list[1])
    ELSE QuoteStringIfRequired(params_list[1]) \o <<SP>> \o JoinParams(Tail(params_list))

---------------------------------------------------------------------------
(* shlex.split(line): the POSIX-mode token reader of Python's shlex, with  *)
(* whitespace_split set and no comment characters.  state is the lexer     *)
(* state: " " between tokens, "a" inside a word, a quote character inside  *)
(* a quoted run, the escape character right after a backslash.             *)

ShlexError == [ok |-> FALSE, tokens |-> <<>>]

RECURSIVE ShlexRead(_, _, _, _, _, _, _)
ShlexRead(s, i, state, escapedstate, token, quoted, acc) ==
    IF i > Len(s)
    THEN IF state \in Quotes THEN ShlexError        \* ValueError: No closing quotation
         ELSE IF state = BS THEN ShlexError          \* ValueError: No escaped character
         ELSE [ok |-> TRUE,
               tokens |-> IF token # <<>> \/ quoted THEN Append(acc, token) ELSE acc]
    ELSE LET nextchar == s[i] IN
         IF state = " "
         THEN IF nextchar \in Whitespace
              THEN ShlexRead(s, i + 1, " ", escapedstate, <<>>, FALSE, acc)
              ELSE IF nextchar = BS
              THEN ShlexRead(s, i + 1, BS, "a", token, quoted, acc)
              ELSE IF nextchar \in Quotes
              THEN ShlexRead(s, i + 1, nextchar, escapedstate, token, quoted, acc)
              ELSE ShlexRead(s, i + 1, "a", escapedstate, <<nextchar>>, quoted, acc)
         ELSE IF state \in Quotes
         THEN IF nextchar = state
              THEN ShlexRead(s, i + 1, "a", escapedstate, token, TRUE, acc)
              ELSE IF nextchar = BS /\ state = DQ
              THEN ShlexRead(s, i + 1, BS, state, token, TRUE, acc)
              ELSE ShlexRead(s, i + 1, state, escapedstate, Append(token, nextchar), TRUE, acc)
         ELSE IF state = BS
         THEN LET kept == IF escapedstate \in Quotes /\ nextchar # BS /\ nextchar # escapedstate
                          THEN Append(token, BS) ELSE token
              IN ShlexRead(s, i + 1, escapedstate, escapedstate, Append(kept, nextchar), quoted, acc)
         ELSE \* state = "a"
              IF nextchar \in Whitespace
              THEN ShlexRead(s, i + 1, " ", escapedstate, <<>>, FALSE, Append(acc, token))
              ELSE IF nextchar \in Quotes
              THEN ShlexRead(s, i + 1, nextchar, escapedstate, token, quoted, acc)
              ELSE IF nextchar = BS
              THEN ShlexRead(s, i + 1, BS, "a", token, quoted, acc)
              ELSE ShlexRead(s, i + 1, "a", escapedstate, Append(token, nextchar), quoted, acc)

ShlexSplit(line) == ShlexRead(line, 1, " ", "a", <<>>, FALSE, <<>>)

\* str.strip(): leading and trailing whitespace removed
RECURSIVE LStrip(_)
LStrip(s) == IF s # <<>> /\ Head(s) \in Whitespace THEN LStrip(Tail(s)) ELSE s

RECURSIVE RStrip(_)
RStrip(s) ==
    IF s # <<>> /\ s[Len(s)] \in Whitespace THEN RStrip(SubSeq(s, 1, Len(s) - 1)) ELSE s

Strip(s) == RStrip(LStrip(s))

---------------------------------------------------------------------------
(* kFunctionInfoMap.  A function that does not modify the filter has no    *)
(* 'NumParamsForMatch' entry: reading it raises KeyError.                  *)

Query(opts, profile) ==
    [NumParamsOptions |-> opts, HasProfileParam |-> profile, ModifiesFilter |-> FALSE]

Mutator(opts, match) ==
    [NumParamsOptions |-> opts, HasProfileParam |-> TRUE, ModifiesFilter |-> TRUE,
     NumParamsForMatch |-> match]

kFunctionInfoMap ==
    ("is_first_launch" :> Query({0}, FALSE)) @@
    ("get_all_profile_names" :> Query({0}, FALSE)) @@
    ("create_new_profile" :> Query({1}, FALSE)) @@
    ("rename_profile" :> Query({2}, FALSE)) @@
    ("delete_profile" :> Query({1}, FALSE)) @@
    ("set_active_profile" :> Query({1}, FALSE)) @@
    ("check_filters_exist" :> Query({0}, TRUE)) @@
    ("import_downloaded_filter" :> Query({0}, TRUE)) @@
    ("load_input_filter" :> Query({0}, TRUE)) @@
    ("run_batch" :> Query({0}, TRUE)) @@
    ("get_rule_matching_item" :> Query({0}, TRUE)) @@
    ("set_rule_visibility" :> Mutator({3}, 2)) @@
    ("set_currency_to_tier" :> Mutator({2}, 1)) @@
    ("get_tier_of_currency" :> Query({1}, TRUE)) @@
    ("get_all_currency_tiers" :> Query({0}, TRUE)) @@
    ("set_currency_tier_min_visible_stack_size" :> Mutator({2}, 1)) @@
    ("get_currency_tier_min_visible_stack_size" :> Query({1}, TRUE)) @@
    ("get_all_essence_tier_visibilities" :> Query({0}, TRUE)) @@
    ("set_hide_essences_above_tier" :> Mutator({1}, 0)) @@
    ("get_hide_essences_above_tier" :> Query({0}, TRUE)) @@
    ("get_all_div_card_tier_visibilities" :> Query({0}, TRUE)) @@
    ("set_hide_div_cards_above_tier" :> Mutator({1}, 0)) @@
    ("get_hide_div_cards_above_tier" :> Query({0}, TRUE)) @@
    ("get_all_unique_item_tier_visibilities" :> Query({0}, TRUE)) @@
    ("set_hide_unique_items_above_tier" :> Mutator({1}, 0)) @@
    ("get_hide_unique_items_above_tier" :> Query({0}, TRUE)) @@
    ("get_all_unique_map_tier_visibilities" :> Query({0}, TRUE)) @@
    ("set_hide_unique_maps_above_tier" :> Mutator({1}, 0)) @@
    ("get_hide_unique_maps_above_tier" :> Query({0}, TRUE)) @@
    ("set_lowest_visible_oil" :> Mutator({1}, 0)) @@
    ("get_lowest_visible_oil" :> Query({0}, TRUE)) @@
    ("set_gem_min_quality" :> Mutator({1}, 0)) @@
    ("get_gem_min_quality" :> Query({0}, TRUE)) @@
    ("set_flask_min_quality" :> Mutator({1}, 0)) @@
    ("get_flask_min_quality" :> Query({0}, TRUE)) @@
    ("set_hide_maps_below_tier" :> Mutator({1}, 0)) @@
    ("get_hide_maps_below_tier" :> Query({0}, TRUE)) @@
    ("set_basetype_visibility" :> Mutator({2, 3}, 2)) @@
    ("get_basetype_visibility" :> Query({1}, TRUE)) @@
    ("get_all_visible_basetypes" :> Query({0}, TRUE)) @@
    ("set_flask_visibility" :> Mutator({2, 3}, 2)) @@
    ("get_flask_visibility" :> Query({1}, TRUE)) @@
    ("get_all_visible_flasks" :> Query({0}, TRUE)) @@
    ("add_remove_socket_rule" :> Mutator({2, 3}, 2)) @@
    ("get_all_added_socket_rules" :> Query({0}, TRUE)) @@
    ("set_rgb_item_max_size" :> Mutator({1}, 0)) @@
    ("get_rgb_item_max_size" :> Query({0}, TRUE)) @@
    ("set_chaos_recipe_enabled_for" :> Mutator({2}, 1)) @@
    ("is_chaos_recipe_enabled_for" :> Query({1}, TRUE)) @@
    ("get_all_chaos_recipe_statuses" :> Query({0}, TRUE))

\* A token is a key of kFunctionInfoMap when it is one run of word characters
\* that spells a function name.
IsFunctionName(token) == Len(token) = 1 /\ token[1] \in DOMAIN kFunctionInfoMap

FunctionInfo(token) == kFunctionInfoMap[token[1]]

HasNumParamsForMatch(token) ==
    IsFunctionName(token) /\ "NumParamsForMatch" \in DOMAIN FunctionInfo(token)

---------------------------------------------------------------------------
(* The changes dict: a chain of OrderedDicts                               *)
(*   function_name -> param1 -> ... -> last_param.                         *)
(* An OrderedDict is the sequence of its items in insertion order; an item *)
(* holds its key and either a string (leaf) or the next OrderedDict (sub). *)

LeafItem(k, v) == [key |-> k, leaf |-> TRUE, val |-> v, sub |-> <<>>]
DictItem(k, d) == [key |-> k, leaf |-> FALSE, val |-> <<>>, sub |-> d]

\* the index of key k in OrderedDict d, 0 when k is not in d
IndexOfKey(d, k) ==
    IF \E i \in 1..Len(d) : d[i].key = k
    THEN CHOOSE i \in 1..Len(d) : d[i].key = k
    ELSE 0

\* A plausible bug: an overwritten key moves to the end (most-recent-update order).
SetItemMoveToEnd(d, item) ==
    Append(SelectSeq(d, LAMBDA e : e.key # item.key), item)

\* d[k] = item.  Assigning to a key already in an OrderedDict keeps the key's
\* place; a new key goes to the end.
SetItem(d, item) ==
    LET i == IndexOfKey(d, item.key)
    IN IF i = 0 THEN Append(d, item) ELSE [d EXCEPT ![i] = item]

RECURSIVE AddFunctionRec(_, _, _, _)
\* The loop of AddFunctionToChangesDict from token i on (i is 1-based here).
AddFunctionRec(function_tokens, i, num_params_for_match, current_dict) ==
    LET current_token == function_tokens[i]
        at == IndexOfKey(current_dict, current_token)
    IN IF i = num_params_for_match + 1
       THEN SetItem(current_dict, LeafItem(current_token, function_tokens[i + 1]))
       ELSE LET below == IF at = 0 THEN <<>> ELSE current_dict[at].sub
            IN SetItem(current_dict,
                       DictItem(current_token,
                                AddFunctionRec(function_tokens, i + 1,
                                               num_params_for_match, below)))

\* AddFunctionToChangesDict: ok is FALSE when the Python raises: IndexError on an
\* empty token list or on too few tokens, KeyError on a name that is not in
\* kFunctionInfoMap or has no 'NumParamsForMatch'.  Tokens beyond
\* function_tokens[num_params_for_match + 1] are never read.
AddFunctionToChangesDict(function_tokens, changes) ==
    IF function_tokens = <<>> THEN [ok |-> FALSE, dict |-> changes]
    ELSE IF ~HasNumParamsForMatch(function_tokens[1]) THEN [ok |-> FALSE, dict |-> changes]
    ELSE LET num_params_for_match == FunctionInfo(function_tokens[1]).NumParamsForMatch
         IN IF Len(function_tokens) < num_params_for_match + 2
            THEN [ok |-> FALSE, dict |-> changes]
            ELSE [ok |-> TRUE,
                  dict |-> AddFunctionRec(function_tokens, 1, num_params_for_match, changes)]

\* A plausible bug: the traversal writes the strings of a dict before it
\* descends into the dicts below it.
RECURSIVE ConvertLeavesFirst(_, _)
ConvertLeavesFirst(changes, current_prefix_list) ==
    LET leaves == SelectSeq(changes, LAMBDA item : item.leaf)
        dicts == SelectSeq(changes, LAMBDA item : ~item.leaf)
        Below[i \in 0..Len(dicts)] ==
            IF i = 0 THEN <<>>
            ELSE Below[i - 1] \o ConvertLeavesFirst(dicts[i].sub,
                                                    Append(current_prefix_list, dicts[i].key))
    IN [i \in 1..Len(leaves) |-> current_prefix_list \o <<leaves[i].key, leaves[i].val>>]
       \o Below[Len(dicts)]

\* A plausible bug: the traversal visits the items of each dict newest first.
RECURSIVE ConvertNewestFirst(_, _)
ConvertNewestFirst(changes, current_prefix_list) ==
    IF changes = <<>> THEN <<>>
    ELSE LET item == Head(changes)
             here == IF item.leaf
                     THEN << current_prefix_list \o <<item.key, item.val>> >>
                     ELSE ConvertNewestFirst(item.sub, Append(current_prefix_list, item.key))
         IN ConvertNewestFirst(Tail(changes), current_prefix_list) \o here

RECURSIVE ConvertChangesDictToFunctionListRec(_, _)
\* The list of token lists, depth first, each dict in insertion order.
ConvertChangesDictToFunctionListRec(changes, current_prefix_list) ==
    IF changes = <<>> THEN <<>>
    ELSE LET item == Head(changes)
             here == IF item.leaf
                     THEN << current_prefix_list \o <<item.key, item.val>> >>
                     ELSE ConvertChangesDictToFunctionListRec(
                              item.sub, Append(current_prefix_list, item.key))
         IN here \o ConvertChangesDictToFunctionListRec(Tail(changes), current_prefix_list)

\* ConvertChangesDictToFunctionList: each token list joined into a line
ConvertChangesDictToFunctionList(changes) ==
    LET token_lists == ConvertChangesDictToFunctionListRec(changes, <<>>)
    IN [i \in 1..Len(token_lists) |-> JoinParams(token_lists[i])]

---------------------------------------------------------------------------
(* UpdateProfileChangesFile                                                *)

RECURSIVE ParseChangesLines(_, _, _)
\* for line in changes_lines_list:
\*     AddFunctionToChangesDict(shlex.split(line.strip()), parsed_changes_dict)
\* from line i on; ok is FALSE as soon as a line raises.
ParseChangesLines(changes_lines_list, i, parsed_changes_dict) ==
    IF i > Len(changes_lines_list) THEN [ok |-> TRUE, dict |-> parsed_changes_dict]
    ELSE LET split == ShlexSplit(Strip(changes_lines_list[i]))
         IN IF ~split.ok THEN [ok |-> FALSE, dict |-> parsed_changes_dict]
            ELSE LET added == AddFunctionToChangesDict(split.tokens, parsed_changes_dict)
                 IN IF ~added.ok THEN added
                    ELSE ParseChangesLines(changes_lines_list, i + 1, added.dict)

\* A plausible bug: the new call is appended to the file as it is, without
\* the merge
UpdateProfileChangesFileAppending(file, new_function_name, new_function_params) ==
    [ok |-> TRUE,
     file |-> Append(file, JoinParams(<<new_function_name>> \o new_function_params))]

\* The changes file after UpdateProfileChangesFile(path, name, params); ok is FALSE,
\* and the file is as it was, when the call raises before it writes.  (The search
\* for a matching function, lines 472-488, only fills matched_rule_tokens_list,
\* which nothing reads.)
UpdateProfileChangesFile(file, new_function_name, new_function_params) ==
    LET parsed == ParseChangesLines(file, 1, <<>>)
    IN IF ~parsed.ok THEN [ok |-> FALSE, file |-> file]
       ELSE LET added == AddFunctionToChangesDict(
                             <<new_function_name>> \o new_function_params, parsed.dict)
            IN IF ~added.ok THEN [ok |-> FALSE, file |-> file]
               ELSE [ok |-> TRUE, file |-> ConvertChangesDictToFunctionList(added.dict)]

---------------------------------------------------------------------------
(* int(s) and str(n), on the numerals the model uses.  int raises          *)
(* ValueError on any other string.                                         *)

Numerals == <<"0", "1", "2", "3", "4", "5", "6", "7", "8", "9", "10",
              "11", "12", "13", "14", "15", "16">>

IsInt(token) == Len(token) = 1 /\ \E n \in 1..Len(Numerals) : Numerals[n] = token[1]

IntOf(token) == (CHOOSE n \in 1..Len(Numerals) : Numerals[n] = token[1]) - 1

StrOf(n) == IF n = -1 THEN <<"-1">> ELSE <<Numerals[n + 1]>>

\* A text is the sequence of its segments between newlines: '' is one empty
\* segment, 'a\nb' is <<a, b>>.
EmptyText == << <<>> >>

---------------------------------------------------------------------------
(* The loot filter, as far as the commands below read and write it.        *)
(* loot_filter.py is not part of the sources at hand: these definitions    *)
(* follow the specification (sections 4.2, 4.3) and the command            *)
(* documentation in backend_cli.py.                                        *)

NumCurrencyTiers == 9
NumTiers == 3
NumMapTiers == 16

TierCategories == {"essences", "div_cards", "unique_items", "unique_maps"}
Visibilities == {"show", "hide", "disable"}

ChaosOrb == <<"Chaos", SP, "Orb">>
ChromaticOrb == <<"Chromatic", SP, "Orb">>
HubrisCirclet == <<"Hubris", SP, "Circlet">>
QuartzFlask == <<"Quartz", SP, "Flask">>

TierTags == [n \in 1..NumTiers |-> <<"t", Numerals[n + 1]>>]

---------------------------------------------------------------------------
(* The rule file as text: a sequence of lines, a line a sequence of words. *)
(* A document is the sequence of segments Parse cuts the text into: rule   *)
(* blocks bound to a (type_tag, tier_tag) pair and opaque segments.        *)

CommentMarker == "#"
TagMarker == "$"
Keywords == {"Show", "Hide"}
KeywordOf == [show |-> "Show", hide |-> "Hide"]

IsCommented(line) == line # <<>> /\ line[1] = CommentMarker

CommentedLine(line) == <<CommentMarker>> \o line

UncommentedLine(line) == IF IsCommented(line) THEN Tail(line) ELSE line

\* a Show or Hide line, commented out or not, starts a block
IsKeywordLine(line) ==
    LET uncommented == UncommentedLine(line)
    IN uncommented # <<>> /\ uncommented[1] \in Keywords

\* the tool-generated marker on a keyword line: Show # $ <type_tag> <tier_tag>
HasTagMarker(line) ==
    LET uncommented == UncommentedLine(line)
    IN /\ Len(uncommented) = 5
       /\ uncommented[2] = CommentMarker
       /\ uncommented[3] = TagMarker

\* a block runs from its keyword line up to the next blank or keyword line
BlockEnd(text, i) ==
    CHOOSE j \in i..Len(text) :
        /\ \A k \in (i + 1)..j : text[k] # <<>> /\ ~IsKeywordLine(text[k])
        /\ j < Len(text) => (text[j + 1] = <<>> \/ IsKeywordLine(text[j + 1]))

\* the text between blocks runs up to the next keyword line
OpaqueEnd(text, i) ==
    CHOOSE j \in i..Len(text) :
        /\ \A k \in (i + 1)..j : ~IsKeywordLine(text[k])
        /\ j < Len(text) => IsKeywordLine(text[j + 1])

RuleVisibilityOf(text_lines) ==
    IF IsCommented(text_lines[1]) THEN "disable"
    ELSE IF text_lines[1][1] = "Show" THEN "show"
    ELSE "hide"

OpaqueSegment(text_lines) ==
    [kind |-> "opaque", type_tag |-> <<>>, tier_tag |-> <<>>,
     visibility |-> "none", text_lines |-> text_lines]

ParseBlock(text_lines) ==
    IF HasTagMarker(text_lines[1])
    THEN LET uncommented == UncommentedLine(text_lines[1])
         IN [kind |-> "rule", type_tag |-> <<uncommented[4]>>,
             tier_tag |-> <<uncommented[5]>>,
             visibility |-> RuleVisibilityOf(text_lines), text_lines |-> text_lines]
    ELSE OpaqueSegment(text_lines)

RECURSIVE ParseFrom(_, _)
ParseFrom(text, i) ==
    IF i > Len(text) THEN <<>>
    ELSE IF IsKeywordLine(text[i])
    THEN <<ParseBlock(SubSeq(text, i, BlockEnd(text, i)))>>
             \o ParseFrom(text, BlockEnd(text, i) + 1)
    ELSE <<OpaqueSegment(SubSeq(text, i, OpaqueEnd(text, i)))>>
             \o ParseFrom(text, OpaqueEnd(text, i) + 1)

Parse(text) == ParseFrom(text, 1)

\* A plausible bug: the blank lines between blocks are dropped when writing
RECURSIVE SerializeWithoutBlankLines(_)
SerializeWithoutBlankLines(document) ==
    IF document = <<>> THEN <<>>
    ELSE SelectSeq(Head(document).text_lines, LAMBDA line : line # <<>>)
             \o SerializeWithoutBlankLines(Tail(document))

RECURSIVE Serialize(_)
Serialize(document) ==
    IF document = <<>> THEN <<>>
    ELSE Head(document).text_lines \o Serialize(Tail(document))

\* A plausible bug: Disable prefixes the lines whatever the rule's state
SetVisibilityAlwaysCommenting(rule, visibility) ==
    IF visibility = "disable"
    THEN [rule EXCEPT !.visibility = visibility,
                      !.text_lines = [i \in 1..Len(@) |-> CommentedLine(@[i])]]
    ELSE LET lines == IF rule.visibility = "disable"
                      THEN [i \in 1..Len(rule.text_lines) |->
                               UncommentedLine(rule.text_lines[i])]
                      ELSE rule.text_lines
         IN [rule EXCEPT !.visibility = visibility,
                         !.text_lines = [lines EXCEPT ![1] =
                             <<KeywordOf[visibility]>> \o Tail(@)]]

\* A plausible bug: re-enabling rewrites the keyword and leaves the lines
\* commented
SetVisibilityKeepingComments(rule, visibility) ==
    IF rule.visibility = visibility THEN rule
    ELSE IF visibility = "disable"
    THEN [rule EXCEPT !.visibility = visibility,
                      !.text_lines = [i \in 1..Len(@) |-> CommentedLine(@[i])]]
    ELSE [rule EXCEPT !.visibility = visibility,
                      !.text_lines = [@ EXCEPT ![1] =
                          <<KeywordOf[visibility]>> \o Tail(UncommentedLine(@))]]

\* LootFilterRule.SetVisibility: re-applying the current state changes
\* nothing; Disable prefixes every line with the comment marker; Show and Hide
\* uncomment the lines of a disabled rule and rewrite the leading keyword.
SetVisibility(rule, visibility) ==
    IF rule.visibility = visibility THEN rule
    ELSE IF visibility = "disable"
    THEN [rule EXCEPT !.visibility = visibility,
                      !.text_lines = [i \in 1..Len(@) |-> CommentedLine(@[i])]]
    ELSE LET lines == IF rule.visibility = "disable"
                      THEN [i \in 1..Len(rule.text_lines) |->
                               UncommentedLine(rule.text_lines[i])]
                      ELSE rule.text_lines
         IN [rule EXCEPT !.visibility = visibility,
                         !.text_lines = [lines EXCEPT ![1] =
                             <<KeywordOf[visibility]>> \o Tail(@)]]

\* the position in the document of the rule with the tags, 0 if there is none
RuleIndex(document, type_tag, tier_tag) ==
    LET matching == {i \in 1..Len(document) :
                        /\ document[i].kind = "rule"
                        /\ document[i].type_tag = type_tag
                        /\ document[i].tier_tag = tier_tag}
    IN IF matching = {} THEN 0
       ELSE CHOOSE i \in matching : \A k \in matching : i <= k

\* the base filter's text
BaseText ==
    << <<CommentMarker, "filter">>,
       <<>>,
       <<"Show", CommentMarker, TagMarker, "currency", "t1">>,
       <<"Class", "Currency">>,
       <<"BaseType", "Chaos", "Exalted">>,
       <<>>,
       <<"Hide">>,
       <<"Class", "Gems">>,
       <<>>,
       <<"Hide", CommentMarker, TagMarker, "currency", "t2">>,
       <<"Class", "Currency">> >>

\* The item slots of the chaos recipe, in the order of consts.kItemSlots
kChaosRecipeItemSlots ==
    << <<"Weapons">>, <<"Body", SP, "Armours">>, <<"Helmets">>, <<"Gloves">>,
       <<"Boots">>, <<"Amulets">>, <<"Rings">>, <<"Belts">> >>

kChaosRecipeItemSlotSet == {kChaosRecipeItemSlots[i] : i \in 1..Len(kChaosRecipeItemSlots)}

\* SetChaosRecipeEnabledFor: the slot's rule is enabled or disabled
SetChaosRecipeEnabledFor(filter, item_slot, enable_flag) ==
    [filter EXCEPT !.chaos_recipe[item_slot] = enable_flag]

IsChaosRecipeEnabledFor(filter, item_slot) == filter.chaos_recipe[item_slot]

\* A filter: per currency tier the names its unstacked and its stacked rule
\* list; per tiered category and tier the rule's visibility; the names the
\* general and the rare-only base-type rules list.
EmptyTierLists == [n \in 1..NumCurrencyTiers |-> {}]

BaseFilter ==
    [unstacked |-> [EmptyTierLists EXCEPT ![1] = {ChaosOrb}, ![2] = {ChromaticOrb}],
     stacked |-> [EmptyTierLists EXCEPT ![1] = {ChaosOrb}, ![2] = {ChromaticOrb}],
     tier_vis |-> [c \in TierCategories |-> [n \in 1..NumTiers |-> "show"]],
     basetypes_any |-> {},
     basetypes_rare |-> {},
     flasks_any |-> {},
     flasks_high_ilvl |-> {},
     socket_rules |-> <<>>,
     hide_maps_rule |-> [keyword |-> "MapTier", operator |-> "<", tier |-> 0],
     document |-> Parse(BaseText),
     chaos_recipe |-> [item_slot \in kChaosRecipeItemSlotSet |-> FALSE]]

\* GetTierOfCurrency: the tier whose rule lists the name, -1 if none does
GetTierOfCurrency(filter, currency_name) ==
    IF \E n \in 1..NumCurrencyTiers : currency_name \in filter.unstacked[n]
    THEN CHOOSE n \in 1..NumCurrencyTiers :
             /\ currency_name \in filter.unstacked[n]
             /\ \A m \in 1..(n - 1) : currency_name \notin filter.unstacked[m]
    ELSE -1

\* SetCurrencyToTier: the name is removed from whichever tier lists it, in the
\* unstacked and the stacked rule, and inserted into the target tier's rules.
SetCurrencyToTier(filter, currency_name, target_tier) ==
    LET moved(lists) ==
            [n \in 1..NumCurrencyTiers |->
                IF n = target_tier THEN lists[n] \cup {currency_name}
                ELSE lists[n] \ {currency_name}]
    IN [filter EXCEPT !.unstacked = moved(@), !.stacked = moved(@)]

GetTierVisibility(filter, category, tier) == filter.tier_vis[category][tier]

\* SetHide<Category>AboveTierTier: tiers above max_visible_tier are hidden, the
\* others shown
SetHideAboveTierTier(filter, category, max_visible_tier) ==
    [filter EXCEPT !.tier_vis[category] =
        [n \in 1..NumTiers |-> IF n > max_visible_tier THEN "hide" ELSE "show"]]

\* GetHide<Category>AboveTierTier: the last tier of the leading run of shown tiers
GetHideAboveTierTier(filter, category) ==
    CHOOSE n \in 0..NumTiers :
        /\ \A m \in 1..n : GetTierVisibility(filter, category, m) = "show"
        /\ n < NumTiers => GetTierVisibility(filter, category, n + 1) # "show"

\* SetHideMapsBelowTierTier: the condition line of the rule that hides maps is
\* rewritten to MapTier < min_visible_tier
SetHideMapsBelowTierTier(filter, min_visible_tier) ==
    [filter EXCEPT !.hide_maps_rule.tier = min_visible_tier]

\* GetHideMapsBelowTierTier: the tier the condition line names
GetHideMapsBelowTierTier(filter) == filter.hide_maps_rule.tier

\* whether the rule that hides maps applies to maps of the tier
MapTierHidden(filter, tier) ==
    LET rule == filter.hide_maps_rule
    IN CASE rule.operator = "<" -> tier < rule.tier
         [] rule.operator = "<=" -> tier <= rule.tier
         [] rule.operator = ">" -> tier > rule.tier
         [] OTHER -> FALSE

\* The item matcher.  An item text is lines <property> <value>; a rule's
\* condition lines are <keyword> <values...> or <keyword> <operator> <number>.
SupportedKeywords == {"Class", "BaseType", "Rarity", "Sockets"}
ActionKeywords == {"SetFontSize"}
Comparators == {"<", "<=", "=", ">=", ">"}
None == <<"None">>

HasProperty(item_text_lines, property) ==
    \E i \in 1..Len(item_text_lines) :
        Len(item_text_lines[i]) = 2 /\ item_text_lines[i][1] = property

ItemProperty(item_text_lines, property) ==
    LET i == CHOOSE i \in 1..Len(item_text_lines) :
                 /\ Len(item_text_lines[i]) = 2 /\ item_text_lines[i][1] = property
                 /\ \A k \in 1..(i - 1) :
                       ~(Len(item_text_lines[k]) = 2 /\ item_text_lines[k][1] = property)
    IN item_text_lines[i][2]

Compare(left, operator, right) ==
    CASE operator = "<" -> left < right
      [] operator = "<=" -> left <= right
      [] operator = "=" -> left = right
      [] operator = ">=" -> left >= right
      [] operator = ">" -> left > right

\* the condition and action lines of a rule, as they read when it is enabled
RuleLines(rule) ==
    LET lines == IF rule.visibility = "disable"
                 THEN [i \in 1..Len(rule.text_lines) |-> UncommentedLine(rule.text_lines[i])]
                 ELSE rule.text_lines
    IN SelectSeq(Tail(lines), LAMBDA line : line # <<>> /\ ~IsCommented(line))

\* no condition line of the rule has a keyword outside the supported set
IsSupported(rule) ==
    \A i \in 1..Len(RuleLines(rule)) :
        RuleLines(rule)[i][1] \in SupportedKeywords \cup ActionKeywords

ConditionHolds(line, item_text_lines) ==
    CASE line[1] \in ActionKeywords -> TRUE
      [] line[1] = "Sockets" ->
            /\ Len(line) = 3 /\ line[2] \in Comparators /\ IsInt(<<line[3]>>)
            /\ HasProperty(item_text_lines, "Sockets")
            /\ IsInt(<<ItemProperty(item_text_lines, "Sockets")>>)
            /\ Compare(IntOf(<<ItemProperty(item_text_lines, "Sockets")>>), line[2],
                       IntOf(<<line[3]>>))
      [] line[1] \in SupportedKeywords ->
            /\ HasProperty(item_text_lines, line[1])
            /\ \E k \in 2..Len(line) : line[k] = ItemProperty(item_text_lines, line[1])
      [] OTHER -> FALSE

\* every condition of the rule holds of the item
ConditionsHold(rule, item_text_lines) ==
    \A i \in 1..Len(RuleLines(rule)) : ConditionHolds(RuleLines(rule)[i], item_text_lines)

\* A plausible bug: a condition with a keyword outside the supported set is
\* taken to hold, and the rule matches on its other conditions
GetRuleMatchingItemUnsupportedAsTrue(filter, item_text_lines) ==
    LET document == filter.document
        Holds(line) == line[1] \notin SupportedKeywords
                          \/ ConditionHolds(line, item_text_lines)
        matching == {i \in 1..Len(document) :
                        /\ document[i].kind = "rule"
                        /\ document[i].visibility # "disable"
                        /\ \A k \in 1..Len(RuleLines(document[i])) :
                              Holds(RuleLines(document[i])[k])}
    IN IF matching = {} THEN <<None, None>>
       ELSE LET first == CHOOSE i \in matching : \A k \in matching : i <= k
            IN <<document[first].type_tag, document[first].tier_tag>>

\* A plausible bug: the walk does not stop at the first match, and the last
\* matching rule is given
GetRuleMatchingItemLastMatch(filter, item_text_lines) ==
    LET document == filter.document
        matching == {i \in 1..Len(document) :
                        /\ document[i].kind = "rule"
                        /\ document[i].visibility # "disable"
                        /\ IsSupported(document[i])
                        /\ ConditionsHold(document[i], item_text_lines)}
    IN IF matching = {} THEN <<None, None>>
       ELSE LET last == CHOOSE i \in matching : \A k \in matching : i >= k
            IN <<document[last].type_tag, document[last].tier_tag>>

\* LootFilter.GetRuleMatchingItem: the rules are walked in the order of the
\* document; a disabled rule and a rule with an unsupported condition are
\* skipped; the tags of the first rule whose conditions all hold are given,
\* (None, None) if there is no such rule.
GetRuleMatchingItem(filter, item_text_lines) ==
    LET document == filter.document
        matching == {i \in 1..Len(document) :
                        /\ document[i].kind = "rule"
                        /\ document[i].visibility # "disable"
                        /\ IsSupported(document[i])
                        /\ ConditionsHold(document[i], item_text_lines)}
    IN IF matching = {} THEN <<None, None>>
       ELSE LET first == CHOOSE i \in matching : \A k \in matching : i <= k
            IN <<document[first].type_tag, document[first].tier_tag>>

\* GetRule(type_tag, tier_tag): the rules the model addresses are the tier rules
\* of the tiered categories and the tagged rules of the document; any other tag
\* pair is RuleNotFound.
IsTierRule(type_tag, tier_tag) ==
    /\ Len(type_tag) = 1 /\ type_tag[1] \in TierCategories
    /\ \E n \in 1..NumTiers : TierTags[n] = tier_tag

HasRule(filter, type_tag, tier_tag) ==
    \/ IsTierRule(type_tag, tier_tag)
    \/ RuleIndex(filter.document, type_tag, tier_tag) # 0

TierOfTag(tier_tag) == CHOOSE n \in 1..NumTiers : TierTags[n] = tier_tag

\* GetRule(type_tag, tier_tag).SetVisibility(visibility)
SetRuleVisibility(filter, type_tag, tier_tag, visibility) ==
    IF IsTierRule(type_tag, tier_tag)
    THEN [filter EXCEPT !.tier_vis[type_tag[1]][TierOfTag(tier_tag)] = visibility]
    ELSE [filter EXCEPT !.document[RuleIndex(filter.document, type_tag, tier_tag)] =
             SetVisibility(@, visibility)]

\* SetBaseTypeRuleEnabledFor: enabling adds the name to the general or to the
\* rare-only rule; disabling removes it from both rules.
SetBaseTypeRuleEnabledFor(filter, base_type, enable_flag, rare_only_flag) ==
    IF enable_flag
    THEN IF rare_only_flag
         THEN [filter EXCEPT !.basetypes_rare = @ \cup {base_type}]
         ELSE [filter EXCEPT !.basetypes_any = @ \cup {base_type}]
    ELSE [filter EXCEPT !.basetypes_any = @ \ {base_type},
                        !.basetypes_rare = @ \ {base_type}]

IsBaseTypeRuleEnabledFor(filter, base_type, rare_flag) ==
    IF rare_flag THEN base_type \in filter.basetypes_rare
    ELSE base_type \in filter.basetypes_any

\* Socket rules.  A socket string names one colour (or X, any) per socket, in
\* either case, with or without separators; an item slot is one of kItemSlots or
\* any, in either case.
SocketColours == {"R", "G", "B", "W", "X"}
SocketSeparators == {"-", SP}
ItemSlots == {"weapons", "body armours", "helmets", "gloves", "boots", "amulets",
              "rings", "belts", "any"}

UpperCase(c) ==
    CASE c = "r" -> "R" [] c = "g" -> "G" [] c = "b" -> "B" [] c = "w" -> "W"
      [] c = "x" -> "X" [] OTHER -> c

LowerCase(word) ==
    CASE word = "Helmets" -> "helmets" [] word = "Any" -> "any"
      [] word = "Gloves" -> "gloves" [] word = "Boots" -> "boots" [] OTHER -> word

IsSocketString(socket_string) ==
    /\ \A i \in 1..Len(socket_string) :
          UpperCase(socket_string[i]) \in SocketColours \cup SocketSeparators
    /\ \E i \in 1..Len(socket_string) : socket_string[i] \notin SocketSeparators

RECURSIVE SocketList(_)
\* the colours of the sockets, in upper case, without the separators
SocketList(socket_string) ==
    IF socket_string = <<>> THEN <<>>
    ELSE IF Head(socket_string) \in SocketSeparators THEN SocketList(Tail(socket_string))
    ELSE <<UpperCase(Head(socket_string))>> \o SocketList(Tail(socket_string))

RECURSIVE JoinSockets(_)
\* the canonical socket string: the colours joined by "-"
JoinSockets(socket_list) ==
    IF Len(socket_list) <= 1 THEN socket_list
    ELSE <<Head(socket_list), "-">> \o JoinSockets(Tail(socket_list))

NormalizedSocketString(socket_string) == JoinSockets(SocketList(socket_string))

IsItemSlot(item_slot) == Len(item_slot) = 1 /\ LowerCase(item_slot[1]) \in ItemSlots

NormalizedItemSlot(item_slot) == <<LowerCase(item_slot[1])>>

SocketRule(socket_string, item_slot) ==
    <<NormalizedSocketString(socket_string), NormalizedItemSlot(item_slot)>>

\* AddSocketRule: the rule is stored in canonical form, once
AddSocketRule(filter, socket_string, item_slot) ==
    LET rule == SocketRule(socket_string, item_slot)
    IN IF \E i \in 1..Len(filter.socket_rules) : filter.socket_rules[i] = rule
       THEN filter
       ELSE [filter EXCEPT !.socket_rules = Append(@, rule)]

\* RemoveSocketRule: the rule of that canonical form is removed, if it is stored
RemoveSocketRule(filter, socket_string, item_slot) ==
    LET rule == SocketRule(socket_string, item_slot)
    IN [filter EXCEPT !.socket_rules = SelectSeq(@, LAMBDA stored : stored # rule)]

GetAllAddedSocketRules(filter) == filter.socket_rules

\* SetFlaskRuleEnabledFor: as SetBaseTypeRuleEnabledFor, on the any-ilvl and the
\* high-ilvl flask rule
SetFlaskRuleEnabledFor(filter, flask_base_type, enable_flag, high_ilvl_flag) ==
    IF enable_flag
    THEN IF high_ilvl_flag
         THEN [filter EXCEPT !.flasks_high_ilvl = @ \cup {flask_base_type}]
         ELSE [filter EXCEPT !.flasks_any = @ \cup {flask_base_type}]
    ELSE [filter EXCEPT !.flasks_any = @ \ {flask_base_type},
                        !.flasks_high_ilvl = @ \ {flask_base_type}]

IsFlaskRuleEnabledFor(filter, flask_base_type, high_ilvl_flag) ==
    IF high_ilvl_flag THEN flask_base_type \in filter.flasks_high_ilvl
    ELSE flask_base_type \in filter.flasks_any

---------------------------------------------------------------------------
(* The branches of DelegateFunctionCall.  A branch gives                   *)
(*   ok: FALSE when it raises; filter: the filter after it;                *)
(*   params: function_params after it (a branch may add a default);        *)
(*   output: output_string.                                                *)

Raised(filter, function_params) ==
    [ok |-> FALSE, filter |-> filter, params |-> function_params, output |-> EmptyText]

Returned(filter, function_params, output_string) ==
    [ok |-> TRUE, filter |-> filter, params |-> function_params, output |-> output_string]

\* CheckNumParams(params_list, required_num_params) does not raise
CheckNumParams(params_list, required_num_params) == Len(params_list) = required_num_params

\* A plausible bug: the flag is converted with bool(function_params[1]), true
\* of every non-empty string
SetChaosRecipeEnabledForCallBoolOfString(filter, function_params) ==
    IF ~CheckNumParams(function_params, 2) THEN Raised(filter, function_params)
    ELSE LET item_slot == function_params[1]
             enable_flag == function_params[2] # <<>>
         IN IF ~IsInt(function_params[2]) THEN Raised(filter, function_params)
            ELSE IF item_slot \notin kChaosRecipeItemSlotSet
            THEN Raised(filter, function_params)
            ELSE Returned(SetChaosRecipeEnabledFor(filter, item_slot, enable_flag),
                          function_params, EmptyText)

\* set_chaos_recipe_enabled_for <item_slot> <enable_flag>
SetChaosRecipeEnabledForCall(filter, function_params) ==
    IF ~CheckNumParams(function_params, 2) THEN Raised(filter, function_params)
    ELSE LET item_slot == function_params[1]
         IN IF ~IsInt(function_params[2]) THEN Raised(filter, function_params) \* ValueError
            ELSE IF item_slot \notin kChaosRecipeItemSlotSet
            THEN Raised(filter, function_params)                  \* unknown item slot
            ELSE Returned(SetChaosRecipeEnabledFor(filter, item_slot,
                                                   IntOf(function_params[2]) # 0),
                          function_params, EmptyText)

\* is_chaos_recipe_enabled_for <item_slot>
IsChaosRecipeEnabledForCall(filter, function_params) ==
    IF ~CheckNumParams(function_params, 1) THEN Raised(filter, function_params)
    ELSE IF function_params[1] \notin kChaosRecipeItemSlotSet
    THEN Raised(filter, function_params)
    ELSE Returned(filter, function_params,
                  <<IF IsChaosRecipeEnabledFor(filter, function_params[1])
                    THEN <<"1">> ELSE <<"0">> >>)

\* get_all_chaos_recipe_statuses: one segment <item_slot>;<enabled_flag> per slot
GetAllChaosRecipeStatusesCall(filter, function_params) ==
    IF ~CheckNumParams(function_params, 0) THEN Raised(filter, function_params)
    ELSE Returned(filter, function_params,
                  [i \in 1..Len(kChaosRecipeItemSlots) |->
                      kChaosRecipeItemSlots[i] \o <<";">>
                          \o (IF IsChaosRecipeEnabledFor(filter, kChaosRecipeItemSlots[i])
                              THEN <<"1">> ELSE <<"0">>)])

\* get_rule_matching_item: the item text is read from backend_cli.input; the
\* output is type_tag:<type_tag>, tier_tag:<tier_tag> and, if a rule matched,
\* the rule's text lines.
GetRuleMatchingItemCall(filter, function_params, input_file) ==
    IF ~CheckNumParams(function_params, 0) THEN Raised(filter, function_params)
    ELSE LET item_text_lines == input_file
             tags == GetRuleMatchingItem(filter, item_text_lines)
             type_tag == tags[1]
             tier_tag == tags[2]
             heading == << <<"type_tag:">> \o type_tag, <<"tier_tag:">> \o tier_tag >>
         IN IF type_tag # None /\ tier_tag # None
            THEN IF ~HasRule(filter, type_tag, tier_tag)
                 THEN Raised(filter, function_params)             \* RuleNotFound
                 ELSE LET matched_rule ==
                              filter.document[RuleIndex(filter.document, type_tag, tier_tag)]
                      IN Returned(filter, function_params,
                                  heading \o (IF matched_rule.text_lines = <<>> THEN EmptyText
                                              ELSE matched_rule.text_lines))
            ELSE Returned(filter, function_params, heading \o EmptyText)

\* A plausible bug: 'disable' is mapped to the visibility that hides the rule
SetRuleVisibilityCallDisableAsHide(filter, function_params) ==
    IF ~CheckNumParams(function_params, 3) THEN Raised(filter, function_params)
    ELSE LET type_tag == function_params[1]
             tier_tag == function_params[2]
             visibility_string == function_params[3]
             visibility_map == [show |-> "show", hide |-> "hide", disable |-> "hide"]
         IN IF ~HasRule(filter, type_tag, tier_tag)
            THEN Raised(filter, function_params)
            ELSE IF ~(Len(visibility_string) = 1 /\ visibility_string[1] \in Visibilities)
            THEN Raised(filter, function_params)
            ELSE Returned(SetRuleVisibility(filter, type_tag, tier_tag,
                                            visibility_map[visibility_string[1]]),
                          function_params, EmptyText)

\* A plausible bug: the rule is looked up by its type tag alone, and every rule
\* of the type is set
SetRuleVisibilityCallByTypeTag(filter, function_params) ==
    IF ~CheckNumParams(function_params, 3) THEN Raised(filter, function_params)
    ELSE LET type_tag == function_params[1]
             tier_tag == function_params[2]
             visibility_string == function_params[3]
         IN IF ~HasRule(filter, type_tag, tier_tag)
            THEN Raised(filter, function_params)
            ELSE IF ~(Len(visibility_string) = 1 /\ visibility_string[1] \in Visibilities)
            THEN Raised(filter, function_params)
            ELSE IF IsTierRule(type_tag, tier_tag)
            THEN Returned(SetRuleVisibility(filter, type_tag, tier_tag, visibility_string[1]),
                          function_params, EmptyText)
            ELSE Returned([filter EXCEPT !.document =
                              [i \in 1..Len(@) |->
                                  IF @[i].kind = "rule" /\ @[i].type_tag = type_tag
                                  THEN SetVisibility(@[i], visibility_string[1])
                                  ELSE @[i]]],
                          function_params, EmptyText)

\* set_rule_visibility <type_tag> <tier_tag> <visibility>
SetRuleVisibilityCall(filter, function_params) ==
    IF ~CheckNumParams(function_params, 3) THEN Raised(filter, function_params)
    ELSE LET type_tag == function_params[1]
             tier_tag == function_params[2]
             visibility_string == function_params[3]
         IN IF ~HasRule(filter, type_tag, tier_tag)
            THEN Raised(filter, function_params)                 \* RuleNotFound
            ELSE IF ~(Len(visibility_string) = 1 /\ visibility_string[1] \in Visibilities)
            THEN Raised(filter, function_params)                 \* KeyError
            ELSE Returned(SetRuleVisibility(filter, type_tag, tier_tag, visibility_string[1]),
                          function_params, EmptyText)

\* A plausible bug: a tier that is no number is ignored instead of raising
SetCurrencyToTierCallIgnoringInvalidTier(filter, function_params) ==
    IF ~CheckNumParams(function_params, 2) THEN Raised(filter, function_params)
    ELSE IF ~IsInt(function_params[2]) THEN Returned(filter, function_params, EmptyText)
    ELSE LET currency_name == function_params[1]
             target_tier == IntOf(function_params[2])
         IN IF target_tier \notin 1..NumCurrencyTiers
            THEN Raised(filter, function_params)
            ELSE Returned(SetCurrencyToTier(filter, currency_name, target_tier),
                          function_params, EmptyText)

\* A plausible bug: the tier parameter is taken for the currency's current tier
\* offset (as the older adjust_currency_tier did), not for the target tier.
SetCurrencyToTierCallAsAdjust(filter, function_params) ==
    IF ~CheckNumParams(function_params, 2) THEN Raised(filter, function_params)
    ELSE IF ~IsInt(function_params[2]) THEN Raised(filter, function_params)
    ELSE LET currency_name == function_params[1]
             target_tier == GetTierOfCurrency(filter, currency_name) + IntOf(function_params[2])
         IN IF target_tier \notin 1..NumCurrencyTiers THEN Raised(filter, function_params)
            ELSE Returned(SetCurrencyToTier(filter, currency_name, target_tier),
                          function_params, EmptyText)

\* set_currency_to_tier <currency_name> <tier>
SetCurrencyToTierCall(filter, function_params) ==
    IF ~CheckNumParams(function_params, 2) THEN Raised(filter, function_params)
    ELSE IF ~IsInt(function_params[2]) THEN Raised(filter, function_params)   \* ValueError
    ELSE LET currency_name == function_params[1]
             target_tier == IntOf(function_params[2])
         IN IF target_tier \notin 1..NumCurrencyTiers
            THEN Raised(filter, function_params)         \* no rule of that tier
            ELSE Returned(SetCurrencyToTier(filter, currency_name, target_tier),
                          function_params, EmptyText)

\* get_tier_of_currency <currency_name>
GetTierOfCurrencyCall(filter, function_params) ==
    IF ~CheckNumParams(function_params, 1) THEN Raised(filter, function_params)
    ELSE Returned(filter, function_params,
                  <<StrOf(GetTierOfCurrency(filter, function_params[1]))>>)

\* A plausible bug: the comparison direction of set_hide_maps_below_tier, where
\* the parameter is the first tier that stays visible.
SetHideAboveTierCallAsBelow(filter, category, function_params) ==
    IF ~CheckNumParams(function_params, 1) THEN Raised(filter, function_params)
    ELSE IF ~IsInt(function_params[1]) THEN Raised(filter, function_params)
    ELSE Returned(SetHideAboveTierTier(filter, category, IntOf(function_params[1]) - 1),
                  function_params, EmptyText)

\* set_hide_<category>_above_tier <tier>
SetHideAboveTierCall(filter, category, function_params) ==
    IF ~CheckNumParams(function_params, 1) THEN Raised(filter, function_params)
    ELSE IF ~IsInt(function_params[1]) THEN Raised(filter, function_params)   \* ValueError
    ELSE LET max_visible_tier == IntOf(function_params[1])
         IN Returned(SetHideAboveTierTier(filter, category, max_visible_tier),
                     function_params, EmptyText)

\* get_hide_<category>_above_tier
GetHideAboveTierCall(filter, category, function_params) ==
    IF ~CheckNumParams(function_params, 0) THEN Raised(filter, function_params)
    ELSE Returned(filter, function_params, <<StrOf(GetHideAboveTierTier(filter, category))>>)

\* get_all_<category>_tier_visibilities: one segment <tier>;<visible_flag> per tier
GetAllTierVisibilitiesCall(filter, category, function_params) ==
    IF ~CheckNumParams(function_params, 0) THEN Raised(filter, function_params)
    ELSE Returned(filter, function_params,
                  [n \in 1..NumTiers |->
                      StrOf(n) \o <<";">> \o
                      StrOf(IF GetTierVisibility(filter, category, n) = "show" THEN 1 ELSE 0)])

\* A plausible bug: the parameter is taken for the last tier that is hidden.
SetHideMapsBelowTierCallOffByOne(filter, function_params) ==
    IF ~CheckNumParams(function_params, 1) THEN Raised(filter, function_params)
    ELSE IF ~IsInt(function_params[1]) THEN Raised(filter, function_params)
    ELSE Returned(SetHideMapsBelowTierTier(filter, IntOf(function_params[1]) + 1),
                  function_params, EmptyText)

\* set_hide_maps_below_tier <tier>
SetHideMapsBelowTierCall(filter, function_params) ==
    IF ~CheckNumParams(function_params, 1) THEN Raised(filter, function_params)
    ELSE IF ~IsInt(function_params[1]) THEN Raised(filter, function_params)   \* ValueError
    ELSE LET min_visibile_tier == IntOf(function_params[1])
         IN Returned(SetHideMapsBelowTierTier(filter, min_visibile_tier),
                     function_params, EmptyText)

\* get_hide_maps_below_tier
GetHideMapsBelowTierCall(filter, function_params) ==
    IF ~CheckNumParams(function_params, 0) THEN Raised(filter, function_params)
    ELSE Returned(filter, function_params, <<StrOf(GetHideMapsBelowTierTier(filter))>>)

\* A plausible bug: the two flags are read in the wrong order.
SetBaseTypeVisibilityCallFlagsSwapped(filter, function_params) ==
    LET with_default == IF Len(function_params) = 2
                        THEN Append(function_params, <<"0">>) ELSE function_params
    IN IF ~CheckNumParams(with_default, 3) THEN Raised(filter, with_default)
       ELSE IF ~IsInt(with_default[2]) \/ ~IsInt(with_default[3])
       THEN Raised(filter, with_default)
       ELSE Returned(SetBaseTypeRuleEnabledFor(filter, with_default[1],
                                               IntOf(with_default[3]) # 0,
                                               IntOf(with_default[2]) # 0),
                     with_default, EmptyText)

\* set_basetype_visibility <base_type> <visibility_flag> <(optional) rare_only_flag>
SetBaseTypeVisibilityCall(filter, function_params) ==
    LET with_default == IF Len(function_params) = 2
                        THEN Append(function_params, <<"0">>) ELSE function_params
    IN IF ~CheckNumParams(with_default, 3) THEN Raised(filter, with_default)
       ELSE IF ~IsInt(with_default[2]) \/ ~IsInt(with_default[3])
       THEN Raised(filter, with_default)                          \* ValueError
       ELSE Returned(SetBaseTypeRuleEnabledFor(filter, with_default[1],
                                               IntOf(with_default[2]) # 0,
                                               IntOf(with_default[3]) # 0),
                     with_default, EmptyText)

\* get_basetype_visibility <base_type>
GetBaseTypeVisibilityCall(filter, function_params) ==
    IF ~CheckNumParams(function_params, 1) THEN Raised(filter, function_params)
    ELSE LET flag(rare) == StrOf(IF IsBaseTypeRuleEnabledFor(filter, function_params[1], rare)
                                 THEN 1 ELSE 0)
         IN Returned(filter, function_params, << flag(FALSE) \o <<SP>> \o flag(TRUE) >>)

\* set_flask_visibility <base_type> <visibility_flag> <(optional) high_ilvl_flag>
SetFlaskVisibilityCall(filter, function_params) ==
    LET with_default == IF Len(function_params) = 2
                        THEN Append(function_params, <<"0">>) ELSE function_params
    IN IF ~CheckNumParams(with_default, 3) THEN Raised(filter, with_default)
       ELSE IF ~IsInt(with_default[2]) \/ ~IsInt(with_default[3])
       THEN Raised(filter, with_default)                          \* ValueError
       ELSE Returned(SetFlaskRuleEnabledFor(filter, with_default[1],
                                            IntOf(with_default[2]) # 0,
                                            IntOf(with_default[3]) # 0),
                     with_default, EmptyText)

\* get_flask_visibility <base_type>
GetFlaskVisibilityCall(filter, function_params) ==
    IF ~CheckNumParams(function_params, 1) THEN Raised(filter, function_params)
    ELSE LET flag(high) == StrOf(IF IsFlaskRuleEnabledFor(filter, function_params[1], high)
                                 THEN 1 ELSE 0)
         IN Returned(filter, function_params, << flag(FALSE) \o <<SP>> \o flag(TRUE) >>)

\* A plausible bug: bool(add_flag_string) for bool(int(add_flag_string)); a
\* string that is not empty is true.
AddRemoveSocketRuleCallFlagAsString(filter, function_params) ==
    LET with_default == IF Len(function_params) = 2
                        THEN <<function_params[1], <<"any">>, function_params[2]>>
                        ELSE function_params
    IN IF ~CheckNumParams(with_default, 3) THEN Raised(filter, with_default)
       ELSE IF ~IsInt(with_default[3]) THEN Raised(filter, with_default)
       ELSE IF ~IsSocketString(with_default[1]) \/ ~IsItemSlot(with_default[2])
       THEN Raised(filter, with_default)
       ELSE Returned(AddSocketRule(filter, with_default[1], with_default[2]),
                     with_default, EmptyText)

\* A plausible bug: the call is recorded with the socket string and the item
\* slot in their canonical form
AddRemoveSocketRuleCallRecordingCanonical(filter, function_params) ==
    LET with_default == IF Len(function_params) = 2
                        THEN <<function_params[1], <<"any">>, function_params[2]>>
                        ELSE function_params
    IN IF ~CheckNumParams(with_default, 3) THEN Raised(filter, with_default)
       ELSE IF ~IsInt(with_default[3]) THEN Raised(filter, with_default)
       ELSE IF ~IsSocketString(with_default[1]) \/ ~IsItemSlot(with_default[2])
       THEN Raised(filter, with_default)
       ELSE LET socket_string == with_default[1]
                item_slot == with_default[2]
                add_flag == IntOf(with_default[3]) # 0
            IN Returned(IF add_flag THEN AddSocketRule(filter, socket_string, item_slot)
                        ELSE RemoveSocketRule(filter, socket_string, item_slot),
                        <<NormalizedSocketString(socket_string),
                          NormalizedItemSlot(item_slot), with_default[3]>>,
                        EmptyText)

\* add_remove_socket_rule <socket_string> <(optional) item_slot> <add_flag>
AddRemoveSocketRuleCall(filter, function_params) ==
    LET with_default == IF Len(function_params) = 2
                        THEN <<function_params[1], <<"any">>, function_params[2]>>
                        ELSE function_params
    IN IF ~CheckNumParams(with_default, 3) THEN Raised(filter, with_default)
       ELSE IF ~IsInt(with_default[3]) THEN Raised(filter, with_default)   \* ValueError
       ELSE IF ~IsSocketString(with_default[1]) \/ ~IsItemSlot(with_default[2])
       THEN Raised(filter, with_default)           \* no socket string, no item slot
       ELSE LET socket_string == with_default[1]
                item_slot == with_default[2]
                add_flag == IntOf(with_default[3]) # 0
            IN Returned(IF add_flag THEN AddSocketRule(filter, socket_string, item_slot)
                        ELSE RemoveSocketRule(filter, socket_string, item_slot),
                        with_default, EmptyText)

\* get_all_added_socket_rules: one segment <socket_string>;<item_slot> per rule
GetAllAddedSocketRulesCall(filter, function_params) ==
    IF ~CheckNumParams(function_params, 0) THEN Raised(filter, function_params)
    ELSE LET rules == GetAllAddedSocketRules(filter)
         IN Returned(filter, function_params,
                     IF rules = <<>> THEN EmptyText
                     ELSE [i \in 1..Len(rules) |-> rules[i][1] \o <<";">> \o rules[i][2]])

---------------------------------------------------------------------------
(* DelegateFunctionCall.  The world w it acts on:                          *)
(*   ok       FALSE once an exception was raised (the invocation ends);    *)
(*   filter   loot_filter, the filter in memory;                           *)
(*   saved    the output filter file, written by loot_filter.SaveToFile(); *)
(*   changes  the lines of Profile.changes;                                *)
(*   output   backend_cli.output;                                          *)
(*   events   what the invocation did so far, in order: a "call" event for *)
(*            each function call that returned, a "save" event for each    *)
(*            SaveToFile().                                                *)

ModifiesFilter(function_name) == FunctionInfo(function_name).ModifiesFilter

\* Body(value), with value evaluated once
Bind(value, Body(_)) == CHOOSE result \in {Body(v) : v \in {value}} : TRUE

CallEvent(function_name, function_params, in_batch, suppress_output, before, after, changes) ==
    [ev |-> "call", tokens |-> <<function_name>> \o function_params,
     mutator |-> ModifiesFilter(function_name), in_batch |-> in_batch,
     replay |-> suppress_output, before |-> before, after |-> after, changes |-> changes]

SaveEvent(filter, changes) ==
    [ev |-> "save", tokens |-> <<>>, mutator |-> FALSE, in_batch |-> FALSE,
     replay |-> FALSE, before |-> filter, after |-> filter, changes |-> changes]

\* loot_filter.SaveToFile()
SaveToFile(w) ==
    [w EXCEPT !.saved = [w.filter EXCEPT !.document = Parse(Serialize(@))],
              !.events = Append(@, SaveEvent(w.filter, w.changes))]

\* WriteOutput(output_string): the output file holds output_string
WriteOutput(output_string) == output_string

\* A plausible bug: the output file is opened for writing, not for appending
AppendFunctionOutputOverwriting(file, function_output_string) ==
    function_output_string \o << <<"@">>, <<>> >>

\* AppendFunctionOutput: output_string + '\n@\n' is appended to the output file
AppendFunctionOutput(file, function_output_string) ==
    SubSeq(file, 1, Len(file) - 1)
        \o << file[Len(file)] \o Head(function_output_string) >>
        \o Tail(function_output_string)
        \o << <<"@">>, <<>> >>

\* The if/elif chain, for the functions that take no part in batches or replay
\* themselves.  Of the functions of kFunctionInfoMap the model dispatches the
\* ones below; in a batch or a replay import_downloaded_filter, load_input_filter
\* and run_batch end in the final else, like a name that is no function.
Branch(filter, function_name, function_params, input_file) ==
    CASE function_name = <<"set_rule_visibility">> ->
            SetRuleVisibilityCall(filter, function_params)
      [] function_name = <<"set_currency_to_tier">> ->
            SetCurrencyToTierCall(filter, function_params)
      [] function_name = <<"get_tier_of_currency">> ->
            GetTierOfCurrencyCall(filter, function_params)
      [] function_name = <<"get_all_essence_tier_visibilities">> ->
            GetAllTierVisibilitiesCall(filter, "essences", function_params)
      [] function_name = <<"set_hide_essences_above_tier">> ->
            SetHideAboveTierCall(filter, "essences", function_params)
      [] function_name = <<"get_hide_essences_above_tier">> ->
            GetHideAboveTierCall(filter, "essences", function_params)
      [] function_name = <<"get_all_div_card_tier_visibilities">> ->
            GetAllTierVisibilitiesCall(filter, "div_cards", function_params)
      [] function_name = <<"set_hide_div_cards_above_tier">> ->
            SetHideAboveTierCall(filter, "div_cards", function_params)
      [] function_name = <<"get_hide_div_cards_above_tier">> ->
            GetHideAboveTierCall(filter, "div_cards", function_params)
      [] function_name = <<"get_all_unique_item_tier_visibilities">> ->
            GetAllTierVisibilitiesCall(filter, "unique_items", function_params)
      [] function_name = <<"set_hide_unique_items_above_tier">> ->
            SetHideAboveTierCall(filter, "unique_items", function_params)
      [] function_name = <<"get_hide_unique_items_above_tier">> ->
            GetHideAboveTierCall(filter, "unique_items", function_params)
      [] function_name = <<"get_all_unique_map_tier_visibilities">> ->
            GetAllTierVisibilitiesCall(filter, "unique_maps", function_params)
      [] function_name = <<"set_hide_unique_maps_above_tier">> ->
            SetHideAboveTierCall(filter, "unique_maps", function_params)
      [] function_name = <<"get_hide_unique_maps_above_tier">> ->
            GetHideAboveTierCall(filter, "unique_maps", function_params)
      [] function_name = <<"set_hide_maps_below_tier">> ->
            SetHideMapsBelowTierCall(filter, function_params)
      [] function_name = <<"get_hide_maps_below_tier">> ->
            GetHideMapsBelowTierCall(filter, function_params)
      [] function_name = <<"set_basetype_visibility">> ->
            SetBaseTypeVisibilityCall(filter, function_params)
      [] function_name = <<"get_basetype_visibility">> ->
            GetBaseTypeVisibilityCall(filter, function_params)
      [] function_name = <<"set_flask_visibility">> ->
            SetFlaskVisibilityCall(filter, function_params)
      [] function_name = <<"get_flask_visibility">> ->
            GetFlaskVisibilityCall(filter, function_params)
      [] function_name = <<"add_remove_socket_rule">> ->
            AddRemoveSocketRuleCall(filter, function_params)
      [] function_name = <<"get_all_added_socket_rules">> ->
            GetAllAddedSocketRulesCall(filter, function_params)
      [] function_name = <<"set_chaos_recipe_enabled_for">> ->
            SetChaosRecipeEnabledForCall(filter, function_params)
      [] function_name = <<"is_chaos_recipe_enabled_for">> ->
            IsChaosRecipeEnabledForCall(filter, function_params)
      [] function_name = <<"get_all_chaos_recipe_statuses">> ->
            GetAllChaosRecipeStatusesCall(filter, function_params)
      [] function_name = <<"get_rule_matching_item">> ->
            GetRuleMatchingItemCall(filter, function_params, input_file)
      [] OTHER -> Raised(filter, function_params)      \* command not supported

\* A plausible bug: the filter is saved after every direct call, query or not.
SavesAfterAnyDirectCall(function_name, in_batch) == ~in_batch

\* A plausible bug: a mutator saves the filter wherever it is called.
SavesAfterEveryCall(function_name, in_batch) == ModifiesFilter(function_name)

\* "Save loot filter if we called a mutator function", outside a batch only
SavesAfterCall(function_name, in_batch) == ~in_batch /\ ModifiesFilter(function_name)

\* A plausible bug: the calls of a batch are recorded after the batch, not one
\* by one (and so not at all when the batch fails)
RecordsCallDeferred(function_name, suppress_output) == FALSE

\* "Save function call to Profile.changes if it is a mutator function"
RecordsCall(function_name, suppress_output) ==
    ModifiesFilter(function_name) /\ ~suppress_output

\* The end of DelegateFunctionCall, after the branch gave result: the output, the
\* save, the update of Profile.changes.
FinishCall(w, function_name, result, in_batch, suppress_output) ==
    IF ~result.ok THEN [w EXCEPT !.ok = FALSE]
    ELSE LET written ==
                 IF in_batch
                 THEN IF ~suppress_output
                      THEN AppendFunctionOutput(w.output, result.output) ELSE w.output
                 ELSE IF function_name # <<"run_batch">>
                      THEN WriteOutput(result.output) ELSE w.output
             w1 == [w EXCEPT !.filter = result.filter, !.output = written]
             Update(w2) == IF RecordsCall(function_name, suppress_output)
                           THEN UpdateProfileChangesFile(w2.changes, function_name,
                                                         result.params)
                           ELSE [ok |-> TRUE, file |-> w2.changes]
             Record(w2, updated) ==
                 IF ~updated.ok THEN [w2 EXCEPT !.ok = FALSE]
                 ELSE [w2 EXCEPT !.changes = updated.file,
                                 !.events = Append(@, CallEvent(function_name, result.params,
                                                                in_batch, suppress_output,
                                                                w.filter, result.filter,
                                                                updated.file))]
         IN Bind(IF SavesAfterCall(function_name, in_batch) THEN SaveToFile(w1) ELSE w1,
                 LAMBDA w2 : Bind(Update(w2), LAMBDA updated : Record(w2, updated)))

\* A plausible bug: the branches of import_downloaded_filter, load_input_filter
\* and run_batch lack the condition "not in_batch" and are taken in a batch
DelegateInBatchNesting(w, function_name, function_params, suppress_output, input_file) ==
    IF function_name \in {<<"import_downloaded_filter">>, <<"load_input_filter">>,
                          <<"run_batch">>}
    THEN FinishCall(w, function_name, Returned(w.filter, function_params, EmptyText),
                    TRUE, suppress_output)
    ELSE Bind(Branch(w.filter, function_name, function_params, input_file),
              LAMBDA result : FinishCall(w, function_name, result, TRUE, suppress_output))

\* DelegateFunctionCall(..., in_batch = True, suppress_output = ...)
DelegateInBatch(w, function_name, function_params, suppress_output, input_file) ==
    Bind(Branch(w.filter, function_name, function_params, input_file),
         LAMBDA result : FinishCall(w, function_name, result, TRUE, suppress_output))

RECURSIVE ReplayChangesNotSuppressing(_, _, _, _)
\* A plausible bug: the logged commands are delegated without suppress_output,
\* like the lines of a batch
ReplayChangesNotSuppressing(w, changes_lines, i, input_file) ==
    IF i > Len(changes_lines) THEN w
    ELSE Bind(ShlexSplit(changes_lines[i]), LAMBDA split :
            IF ~split.ok \/ split.tokens = <<>> THEN [w EXCEPT !.ok = FALSE]
            ELSE Bind(DelegateInBatch(w, Head(split.tokens), Tail(split.tokens), FALSE,
                                      input_file),
                      LAMBDA w1 : IF ~w1.ok THEN w1
                                  ELSE ReplayChangesNotSuppressing(w1, changes_lines, i + 1,
                                                                   input_file)))

RECURSIVE ReplayChanges(_, _, _, _)
\* for function_call_string in changes_lines: the call is split and delegated
\* with in_batch = True, suppress_output = True
ReplayChanges(w, changes_lines, i, input_file) ==
    IF i > Len(changes_lines) THEN w
    ELSE Bind(ShlexSplit(changes_lines[i]), LAMBDA split :
            IF ~split.ok \/ split.tokens = <<>> THEN [w EXCEPT !.ok = FALSE]
            ELSE Bind(DelegateInBatch(w, Head(split.tokens), Tail(split.tokens), TRUE,
                                      input_file),
                      LAMBDA w1 : IF ~w1.ok THEN w1
                                  ELSE ReplayChanges(w1, changes_lines, i + 1, input_file)))

RECURSIVE RunBatchLines(_, _, _, _)
\* for function_call_string in function_call_list: a blank line is skipped, any
\* other is split and delegated with in_batch = True, suppress_output = False.
\* Gives the world after the loop and contains_mutator.
RunBatchLines(w, function_call_list, i, contains_mutator) ==
    IF i > Len(function_call_list) THEN [w |-> w, contains_mutator |-> contains_mutator]
    ELSE IF Strip(function_call_list[i]) = <<>>
    THEN RunBatchLines(w, function_call_list, i + 1, contains_mutator)
    ELSE Bind(ShlexSplit(function_call_list[i]), LAMBDA split :
            IF ~split.ok \/ split.tokens = <<>> \/ ~IsFunctionName(Head(split.tokens))
            THEN [w |-> [w EXCEPT !.ok = FALSE], contains_mutator |-> contains_mutator]
            ELSE Bind(DelegateInBatch(w, Head(split.tokens), Tail(split.tokens), FALSE,
                                      function_call_list),
                      LAMBDA w1 :
                          IF ~w1.ok THEN [w |-> w1, contains_mutator |-> contains_mutator]
                          ELSE RunBatchLines(w1, function_call_list, i + 1,
                                             contains_mutator
                                                 \/ ModifiesFilter(Head(split.tokens)))))

\* "Check if batch contained a mutator and save filter if so"
SavesAfterBatch(contains_mutator) == contains_mutator

\* DelegateFunctionCall(loot_filter, function_name, function_params), as main_impl
\* calls it; input_file holds the lines of backend_cli.input.
DelegateFunctionCall(w, function_name, function_params, input_file) ==
    IF function_name \in {<<"import_downloaded_filter">>, <<"load_input_filter">>}
    THEN IF ~CheckNumParams(function_params, 0) THEN [w EXCEPT !.ok = FALSE]
         ELSE Bind(ReplayChanges(w, w.changes, 1, input_file), LAMBDA w1 :
                 IF ~w1.ok THEN w1
                 ELSE Bind(SaveToFile(w1), LAMBDA w2 :
                         FinishCall(w2, function_name,
                                    Returned(w2.filter, function_params, EmptyText),
                                    FALSE, FALSE)))
    ELSE IF function_name = <<"run_batch">>
    THEN IF ~CheckNumParams(function_params, 0) THEN [w EXCEPT !.ok = FALSE]
         ELSE Bind(RunBatchLines([w EXCEPT !.output = WriteOutput(EmptyText)],
                                 input_file, 1, FALSE), LAMBDA ran :
                 IF ~ran.w.ok THEN ran.w
                 ELSE Bind(IF SavesAfterBatch(ran.contains_mutator)
                           THEN SaveToFile(ran.w) ELSE ran.w, LAMBDA w2 :
                         FinishCall(w2, function_name,
                                    Returned(w2.filter, function_params, EmptyText),
                                    FALSE, FALSE)))
    ELSE Bind(Branch(w.filter, function_name, function_params, input_file), LAMBDA result :
            FinishCall(w, function_name, result, FALSE, FALSE))

\* ValidateAndParseArguments does not raise: the function is known and the
\* number of parameters is one of its NumParamsOptions.
ValidArguments(function_name, function_params) ==
    /\ IsFunctionName(function_name)
    /\ Len(function_params) \in FunctionInfo(function_name).NumParamsOptions

\* main_impl: the filter is parsed from the downloaded (base) filter for an
\* import, from the output filter otherwise, and the call is delegated.
MainImpl(base, saved, changes, output, function_name, function_params, input_file) ==
    LET loaded == IF function_name \in {<<"import_downloaded_filter">>, <<"load_input_filter">>}
                  THEN base ELSE saved
        w == [ok |-> TRUE, filter |-> loaded, saved |-> saved, changes |-> changes,
              output |-> output, events |-> <<>>]
    IN IF ~ValidArguments(function_name, function_params) THEN [w EXCEPT !.ok = FALSE]
       ELSE DelegateFunctionCall(w, function_name, function_params, input_file)

NoCall ==
    [name |-> <<>>, params |-> <<>>, input |-> <<>>, ok |-> TRUE, events |-> <<>>,
     filter_before |-> BaseFilter, changes_before |-> <<>>]

\* main_impl run on the files as they are: the output filter, the changes
\* file and the output file after it, and what the run did
RunMainImpl(function_name, function_params, input_file) ==
    \E w \in {MainImpl(BaseFilter, out_filter, changes_file, cli_output,
                       function_name, function_params, input_file)} :
       /\ out_filter' = w.saved
       /\ changes_file' = w.changes
       /\ cli_output' = w.output
       /\ c_last' = [name |-> function_name, params |-> function_params,
                     input |-> input_file, ok |-> w.ok, events |-> w.events,
                     filter_before |-> out_filter, changes_before |-> changes_file]
       /\ c_n' = c_n + 1
       /\ UNCHANGED <<t_vars, l_hist, l_before, l_ok>>

\* One run of backend_cli.py <function_name> <function_params...> <profile>
Invoke(function_name, function_params, input_file) ==
    RunMainImpl(function_name, function_params, input_file) /\ UNCHANGED q_vars

\* A plausible bug: the success code is written whether or not main_impl raised
ExitCodeAlwaysSuccess(ok) == <<"0">>

\* main: the exit code written after main_impl, 0 when it returned and 1 when
\* it raised
ExitCode(ok) == IF ok THEN <<"0">> ELSE <<"1">>

kInProgressExitCode == <<"-1">>

---------------------------------------------------------------------------
(* Bounds and input sets                                                   *)

MaxStrLen == 3
MaxHist == 4
MaxLogHist == 3

SeqsUpTo(S, n) == UNION {[1..k -> S] : k \in 0..n}

QAlphabet == {"a", SP, TAB, SQ, DQ, BS}
QStrings == SeqsUpTo(QAlphabet, MaxStrLen)

\* token lists of well-formed mutator calls, with match arity 0, 1 and 2
TrieInputs ==
    { <<<<"set_hide_maps_below_tier">>, <<"10">>>>,
      <<<<"set_hide_maps_below_tier">>, <<"14">>>>,
      <<<<"set_currency_to_tier">>, <<"Chaos", SP, "Orb">>, <<"1">>>>,
      <<<<"set_currency_to_tier">>, <<"Chaos", SP, "Orb">>, <<"2">>>>,
      <<<<"set_currency_to_tier">>, <<"Chromatic", SP, "Orb">>, <<"1">>>>,
      <<<<"set_basetype_visibility">>, <<"Hubris", SP, "Circlet">>, <<"1">>, <<"0">>>>,
      <<<<"set_basetype_visibility">>, <<"Hubris", SP, "Circlet">>, <<"1">>, <<"1">>>>,
      <<<<"set_basetype_visibility">>, <<"Hubris", SP, "Circlet">>, <<"0">>, <<"0">>>> }

\* mutator calls as DelegateFunctionCall hands them to UpdateProfileChangesFile
LogInputs ==
    { <<<<"set_hide_maps_below_tier">>, <<"10">>>>,
      <<<<"set_hide_maps_below_tier">>, <<"14">>>>,
      <<<<"set_currency_to_tier">>, <<"Chaos", SP, "Orb">>, <<"1">>>>,
      <<<<"set_currency_to_tier">>, <<"Chaos", SP, "Orb">>, <<"2">>>>,
      <<<<"set_basetype_visibility">>, <<"Sorcerer", SQ, "s", SP, "Gloves">>, <<"1">>, <<"0">>>>,
      <<<<"set_basetype_visibility">>, <<"a", BS, "b">>, <<"1">>, <<"0">>>>,
      <<<<"set_basetype_visibility">>, <<"a", BS, "b">>, <<"1">>, <<"1">>>> }

\* lines a changes file may hold when the tool did not write it: well-formed
\* lines, an unbalanced quote, a function name of an older version, a query
\* function, a missing value, a surplus token, a blank line
SampleLines ==
    { <<"set_hide_maps_below_tier", SP, "10">>,
      <<"set_currency_to_tier", SP, DQ, "Chaos", SP, "Orb", DQ, SP, "3">>,
      <<"set_currency_to_tier", SP, SQ, "Chaos", SP, "Orb", SP, "3">>,
      <<"adjust_currency_tier", SP, "Chaos", SP, "1">>,
      <<"get_hide_maps_below_tier">>,
      <<"set_hide_maps_below_tier">>,
      <<"set_hide_maps_below_tier", SP, "14", SP, "15">>,
      <<>> }

SampleFiles == UNION {[1..k -> SampleLines] : k \in 1..2}

---------------------------------------------------------------------------
(* Specifications                                                          *)

QIdle == q_input = <<>> /\ q_line = <<>> /\ q_tokens = ShlexError /\ q_pc = "idle"
TIdle == changes_dict = <<>> /\ t_hist = <<>>
LIdle == changes_file = <<>> /\ l_hist = <<>> /\ l_before = <<>> /\ l_ok = TRUE
CIdle == out_filter = BaseFilter /\ cli_output = EmptyText /\ c_last = NoCall /\ c_n = 0

\* QuoteSpec: one string is quoted, then tokenized
QuoteInit ==
    /\ q_input \in QStrings
    /\ q_line = <<>>
    /\ q_tokens = ShlexError
    /\ q_pc = "start"
    /\ TIdle /\ LIdle /\ CIdle

QuoteStep ==
    /\ q_pc = "start"
    /\ q_line' = QuoteStringIfRequired(q_input)
    /\ q_pc' = "quoted"
    /\ UNCHANGED <<q_input, q_tokens, t_vars, l_vars, c_vars>>

TokenizeStep ==
    /\ q_pc = "quoted"
    /\ q_tokens' = ShlexSplit(Strip(q_line))
    /\ q_pc' = "done"
    /\ UNCHANGED <<q_input, q_line, t_vars, l_vars, c_vars>>

QuoteNext == QuoteStep \/ TokenizeStep

QuoteSpec == QuoteInit /\ [][QuoteNext]_vars

\* TrieSpec: token lists are merged into one changes dict, as the loop of
\* UpdateProfileChangesFile does with the lines of the file and the new call
TrieInit == TIdle /\ QIdle /\ LIdle /\ CIdle

MergeCommand ==
    \E function_tokens \in TrieInputs :
        /\ Len(t_hist) < MaxHist
        /\ LET added == AddFunctionToChangesDict(function_tokens, changes_dict)
           IN /\ added.ok
              /\ changes_dict' = added.dict
        /\ t_hist' = Append(t_hist, function_tokens)
        /\ UNCHANGED <<q_vars, l_vars, c_vars>>

TrieNext == MergeCommand

TrieSpec == TrieInit /\ [][TrieNext]_vars

\* LogSpec: UpdateProfileChangesFile is called again and again on one changes
\* file, which starts empty
LogInit == LIdle /\ QIdle /\ TIdle /\ CIdle

UpdateStep ==
    \E call \in LogInputs :
        /\ Len(l_hist) < MaxLogHist
        /\ LET updated == UpdateProfileChangesFile(changes_file, Head(call), Tail(call))
           IN /\ changes_file' = updated.file
              /\ l_ok' = updated.ok
        /\ l_before' = changes_file
        /\ l_hist' = Append(l_hist, call)
        /\ UNCHANGED <<q_vars, t_vars, c_vars>>

LogNext == UpdateStep

LogSpec == LogInit /\ [][LogNext]_vars

\* CorruptLogSpec: the same calls on a changes file that was edited by hand
CorruptLogInit ==
    /\ changes_file \in SampleFiles
    /\ l_hist = <<>> /\ l_before = <<>> /\ l_ok = TRUE
    /\ QIdle /\ TIdle /\ CIdle

CorruptLogSpec == CorruptLogInit /\ [][LogNext]_vars

---------------------------------------------------------------------------
(* Invocations of backend_cli.py                                           *)

MaxReplayCalls == 4
MaxCalls == 2
MaxCurrencyCalls == 2
MaxTierCalls == 2

Call(function_name, function_params) ==
    [name |-> <<function_name>>, params |-> function_params]

ImportNames == {<<"import_downloaded_filter">>, <<"load_input_filter">>}

\* successful mutator calls, some of which undo or override others
ReplayCalls ==
    { Call("set_basetype_visibility", <<HubrisCirclet, <<"1">>>>),
      Call("set_basetype_visibility", <<HubrisCirclet, <<"0">>>>),
      Call("set_currency_to_tier", <<ChaosOrb, <<"2">>>>),
      Call("set_currency_to_tier", <<ChaosOrb, <<"3">>>>),
      Call("set_hide_essences_above_tier", <<<<"1">>>>),
      Call("set_hide_essences_above_tier", <<<<"2">>>>) }

\* ReplaySpec: mutators are applied one at a time to the filter imported from
\* the base file; from time to time the base file is imported again
ReplayInit == CIdle /\ LIdle /\ QIdle /\ TIdle

ReplayMutate ==
    \E call \in ReplayCalls :
        /\ c_n < MaxReplayCalls
        /\ Invoke(call.name, call.params, <<>>)

ReplayImport ==
    \E function_name \in ImportNames :
        /\ c_n < MaxReplayCalls
        /\ Invoke(function_name, <<>>, <<>>)

ReplayNext == ReplayMutate \/ ReplayImport

ReplaySpec == ReplayInit /\ [][ReplayNext]_vars

\* direct calls: mutators and queries, a parameter with a backslash, a wrong
\* number of parameters, a parameter that is no integer, a name that is no function
CliCalls ==
    { Call("set_currency_to_tier", <<ChaosOrb, <<"3">>>>),
      Call("get_tier_of_currency", <<ChaosOrb>>),
      Call("set_basetype_visibility", <<HubrisCirclet, <<"1">>>>),
      Call("set_basetype_visibility", <<<<"a", BS, "b">>, <<"1">>, <<"0">>>>),
      Call("set_hide_div_cards_above_tier", <<<<"2">>>>),
      Call("get_hide_div_cards_above_tier", <<>>),
      Call("get_all_unique_map_tier_visibilities", <<>>),
      Call("set_currency_to_tier", <<ChaosOrb>>),
      Call("set_currency_to_tier", <<ChaosOrb, <<"x">>>>),
      Call("adjust_currency_tier", <<ChaosOrb, <<"1">>>>) }

\* contents of backend_cli.input: no line, queries only, mutators and queries
\* and a blank line, mutators only, a line that raises after a mutator, a
\* batch within the batch, a line that names no function, queries of several
\* output lines around a mutator and an empty line
BatchInputs ==
    { <<>>,
      << <<"get_tier_of_currency", SP, DQ, "Chaos", SP, "Orb", DQ>>,
         <<"get_hide_essences_above_tier">> >>,
      << <<"set_currency_to_tier", SP, DQ, "Chaos", SP, "Orb", DQ, SP, "3">>,
         <<SP>>,
         <<"get_tier_of_currency", SP, DQ, "Chaos", SP, "Orb", DQ>>,
         <<"set_hide_essences_above_tier", SP, "1">> >>,
      << <<"set_basetype_visibility", SP, DQ, "Hubris", SP, "Circlet", DQ, SP, "1", SP, "1">>,
         <<"set_currency_to_tier", SP, DQ, "Chromatic", SP, "Orb", DQ, SP, "1">> >>,
      << <<"set_currency_to_tier", SP, DQ, "Chaos", SP, "Orb", DQ, SP, "2">>,
         <<"set_currency_to_tier", SP, DQ, "Chaos", SP, "Orb", DQ, SP, "x">> >>,
      << <<"run_batch">> >>,
      << <<"adjust_currency_tier", SP, "Chaos", SP, "1">> >>,
      << <<"get_all_essence_tier_visibilities">>,
         <<"set_hide_essences_above_tier", SP, "2">>,
         <<>>,
         <<"get_all_essence_tier_visibilities">> >> }

\* CliSpec: direct calls, batches and imports in any order
CliInit == CIdle /\ LIdle /\ QIdle /\ TIdle

DirectCall ==
    \E call \in CliCalls :
        /\ c_n < MaxCalls
        /\ Invoke(call.name, call.params, <<>>)

BatchCall ==
    \E input_file \in BatchInputs :
        /\ c_n < MaxCalls
        /\ Invoke(<<"run_batch">>, <<>>, input_file)

ImportCall ==
    \E function_name \in ImportNames :
        /\ c_n < MaxCalls
        /\ Invoke(function_name, <<>>, <<>>)

CliNext == DirectCall \/ BatchCall \/ ImportCall

CliSpec == CliInit /\ [][CliNext]_vars

\* CurrencySpec: currencies are moved between tiers and their tiers are read;
\* the tier parameter ranges over the tiers and the two numbers next to them
CurrencyNames == {ChaosOrb, ChromaticOrb, <<"Orb", SP, "of", SP, "Alchemy">>}

CurrencyInit == CIdle /\ LIdle /\ QIdle /\ TIdle

SetTierCall ==
    \E currency_name \in CurrencyNames, tier \in 0..(NumCurrencyTiers + 1) :
        /\ c_n < MaxCurrencyCalls
        /\ Invoke(<<"set_currency_to_tier">>, <<currency_name, StrOf(tier)>>, <<>>)

GetTierCall ==
    \E currency_name \in CurrencyNames :
        /\ c_n < MaxCurrencyCalls
        /\ Invoke(<<"get_tier_of_currency">>, <<currency_name>>, <<>>)

CurrencyNext == SetTierCall \/ GetTierCall

CurrencySpec == CurrencyInit /\ [][CurrencyNext]_vars

\* TierSpec: the tier commands of the four tiered categories, among calls that
\* set the visibility of single tier rules
HideAboveTierName(category) == <<"set_hide_" \o category \o "_above_tier">>
GetHideAboveTierName(category) == <<"get_hide_" \o category \o "_above_tier">>

TierInit == CIdle /\ LIdle /\ QIdle /\ TIdle

SetHideAboveCall ==
    \E category \in TierCategories, tier \in 0..NumTiers :
        /\ c_n < MaxTierCalls
        /\ Invoke(HideAboveTierName(category), <<StrOf(tier)>>, <<>>)

GetHideAboveCall ==
    \E category \in TierCategories :
        /\ c_n < MaxTierCalls
        /\ Invoke(GetHideAboveTierName(category), <<>>, <<>>)

SetRuleCall ==
    \E category \in {"essences", "unique_maps"}, tier \in {1, NumTiers},
       visibility \in {"show", "hide"} :
        /\ c_n < MaxTierCalls
        /\ Invoke(<<"set_rule_visibility">>,
                  <<<<category>>, TierTags[tier], <<visibility>>>>, <<>>)

TierNext == SetHideAboveCall \/ GetHideAboveCall \/ SetRuleCall

TierSpec == TierInit /\ [][TierNext]_vars

\* MapsSpec: the map tier threshold is set again and again, and read
MaxMapCalls == 2

MapsInit == CIdle /\ LIdle /\ QIdle /\ TIdle

SetHideMapsCall ==
    \E tier \in 0..NumMapTiers :
        /\ c_n < MaxMapCalls
        /\ Invoke(<<"set_hide_maps_below_tier">>, <<StrOf(tier)>>, <<>>)

GetHideMapsCall ==
    /\ c_n < MaxMapCalls
    /\ Invoke(<<"get_hide_maps_below_tier">>, <<>>, <<>>)

MapsNext == SetHideMapsCall \/ GetHideMapsCall

MapsSpec == MapsInit /\ [][MapsNext]_vars

\* VisibilitySpec: a base type and a flask type are enabled and disabled, for
\* the general and for the narrow rule, and read
MaxVisibilityCalls == 3

VisibilityCalls ==
    { Call("set_basetype_visibility", <<HubrisCirclet, <<"1">>>>),
      Call("set_basetype_visibility", <<HubrisCirclet, <<"1">>, <<"1">>>>),
      Call("set_basetype_visibility", <<HubrisCirclet, <<"0">>>>),
      Call("set_basetype_visibility", <<HubrisCirclet, <<"0">>, <<"1">>>>),
      Call("set_flask_visibility", <<QuartzFlask, <<"1">>, <<"0">>>>),
      Call("set_flask_visibility", <<QuartzFlask, <<"1">>, <<"1">>>>),
      Call("set_flask_visibility", <<QuartzFlask, <<"0">>, <<"0">>>>),
      Call("set_flask_visibility", <<QuartzFlask, <<"0">>, <<"1">>>>) }

VisibilityInit == CIdle /\ LIdle /\ QIdle /\ TIdle

SetVisibilityCall ==
    \E call \in VisibilityCalls :
        /\ c_n < MaxVisibilityCalls
        /\ Invoke(call.name, call.params, <<>>)

GetVisibilityCall ==
    \E call \in { Call("get_basetype_visibility", <<HubrisCirclet>>),
                  Call("get_flask_visibility", <<QuartzFlask>>) } :
        /\ c_n < MaxVisibilityCalls
        /\ Invoke(call.name, call.params, <<>>)

VisibilityNext == SetVisibilityCall \/ GetVisibilityCall

VisibilitySpec == VisibilityInit /\ [][VisibilityNext]_vars

\* SocketSpec: socket rules are added and removed through socket strings and
\* item slots written in different ways, and listed
MaxSocketCalls == 3

SocketCalls ==
    LET upper == <<"B", "-", "B", "-", "G", "-", "X">>
        lower == <<"b", "-", "b", SP, "g", "x">>
    IN { Call("add_remove_socket_rule", <<upper, <<"1">>>>),
         Call("add_remove_socket_rule", <<upper, <<"0">>>>),
         Call("add_remove_socket_rule", <<upper, <<"Helmets">>, <<"1">>>>),
         Call("add_remove_socket_rule", <<upper, <<"Helmets">>, <<"0">>>>),
         Call("add_remove_socket_rule", <<lower, <<"Any">>, <<"1">>>>),
         Call("add_remove_socket_rule", <<lower, <<"Any">>, <<"0">>>>),
         Call("add_remove_socket_rule", <<lower, <<"helmets">>, <<"1">>>>),
         Call("add_remove_socket_rule", <<lower, <<"helmets">>, <<"0">>>>),
         Call("add_remove_socket_rule", <<<<"R", "-", "R">>, <<"1">>>>),
         Call("add_remove_socket_rule", <<<<"Z">>, <<"1">>>>) }

SocketInit == CIdle /\ LIdle /\ QIdle /\ TIdle

SocketRuleCall ==
    \E call \in SocketCalls :
        /\ c_n < MaxSocketCalls
        /\ Invoke(call.name, call.params, <<>>)

ListSocketRulesCall ==
    /\ c_n < MaxSocketCalls
    /\ Invoke(<<"get_all_added_socket_rules">>, <<>>, <<>>)

SocketNext == SocketRuleCall \/ ListSocketRulesCall

SocketSpec == SocketInit /\ [][SocketNext]_vars

---------------------------------------------------------------------------
(* RuleSpec: set_rule_visibility on the tagged rules of filter files built *)
(* from a few sample blocks.                                               *)

MaxBlocks == 2
MaxRuleCalls == 2
MaxDisables == 2

SampleBlocks ==
    { << <<"Show", CommentMarker, TagMarker, "currency", "t1">>,
         <<"Class", "Currency">> >>,
      << <<"Hide", CommentMarker, TagMarker, "currency", "t2">>,
         <<CommentMarker, "note">>,
         <<"Class", "Currency">> >>,
      << <<CommentMarker, "Show", CommentMarker, TagMarker, "gems", "t1">>,
         <<CommentMarker, "Class", "Gems">> >>,
      << <<"Hide">>, <<"Class", "Gems">> >>,
      << <<>>, <<"Show">>, <<"Class", "Gems">> >>,
      << <<CommentMarker, "section">> >>,
      << <<>> >> }

RECURSIVE Concatenation(_)
Concatenation(blocks) ==
    IF blocks = <<>> THEN <<>> ELSE Head(blocks) \o Concatenation(Tail(blocks))

RuleTexts == {Concatenation(blocks) : blocks \in SeqsUpTo(SampleBlocks, MaxBlocks)}

RuleTags == { <<"currency", "t1">>, <<"currency", "t2">>, <<"gems", "t1">> }

\* every state for every rule, a rule no file has, and a visibility unknown
RuleCalls ==
    {Call("set_rule_visibility", << <<tags[1]>>, <<tags[2]>>, <<visibility>> >>) :
        tags \in RuleTags, visibility \in Visibilities}
    \cup { Call("set_rule_visibility", << <<"gems">>, <<"t2">>, <<"show">> >>),
           Call("set_rule_visibility", << <<"currency">>, <<"t1">>, <<"dim">> >>) }

RuleInit ==
    /\ LIdle /\ QIdle /\ TIdle
    /\ changes_file = <<>>
    /\ \E text \in RuleTexts : out_filter = [BaseFilter EXCEPT !.document = Parse(text)]
    /\ cli_output = EmptyText
    /\ c_last = NoCall
    /\ c_n = 0

RuleVisibilityCall ==
    \E call \in RuleCalls :
        /\ c_n < MaxRuleCalls
        /\ Invoke(call.name, call.params, <<>>)

RuleNext == RuleVisibilityCall

RuleSpec == RuleInit /\ [][RuleNext]_vars

---------------------------------------------------------------------------
(* RoundTripSpec: a filter text is parsed, and the document is written     *)
(* with no change made to it.  q_input is the text read, out_filter the    *)
(* filter in memory, q_line the text written.                              *)

MaxTextLen == 3

SampleTextLines ==
    { <<"Show", CommentMarker, TagMarker, "currency", "t1">>,
      <<CommentMarker, "Hide", CommentMarker, TagMarker, "currency", "t2">>,
      <<"Hide">>,
      <<"Class", "Currency">>,
      <<CommentMarker, "note">>,
      <<CommentMarker>>,
      <<>> }

FilterTexts == SeqsUpTo(SampleTextLines, MaxTextLen)

RoundTripInit ==
    /\ CIdle /\ LIdle /\ TIdle
    /\ q_input \in FilterTexts
    /\ q_line = <<>>
    /\ q_tokens = ShlexError
    /\ q_pc = "read"

ParseText ==
    /\ q_pc = "read"
    /\ out_filter' = [BaseFilter EXCEPT !.document = Parse(q_input)]
    /\ q_pc' = "parsed"
    /\ UNCHANGED <<q_input, q_line, q_tokens, t_vars, l_vars, cli_output, c_last, c_n>>

SerializeDocument ==
    /\ q_pc = "parsed"
    /\ q_line' = Serialize(out_filter.document)
    /\ q_pc' = "written"
    /\ UNCHANGED <<q_input, q_tokens, t_vars, l_vars, c_vars>>

RoundTripNext == ParseText \/ SerializeDocument

RoundTripSpec == RoundTripInit /\ [][RoundTripNext]_vars

---------------------------------------------------------------------------
(* MatchSpec: get_rule_matching_item on filter files of distinct tagged    *)
(* rules, after set_rule_visibility calls.                                 *)

MaxMatchBlocks == 3
MaxMatchCalls == 2

MatchBlocks ==
    { << <<"Show", CommentMarker, TagMarker, "currency", "t1">>,
         <<"Class", "Currency">>,
         <<"SetFontSize", "40">> >>,
      << <<"Show", CommentMarker, TagMarker, "currency", "t2">>,
         <<"Class", "Currency">>,
         <<"BaseType", "Chaos">> >>,
      << <<"Show", CommentMarker, TagMarker, "currency", "t3">>,
         <<"Class", "Currency">>,
         <<"AreaLevel", ">=", "7">> >>,
      << <<"Hide", CommentMarker, TagMarker, "sockets", "t1">>,
         <<CommentMarker, "note">>,
         <<"Sockets", ">=", "5">> >>,
      << <<CommentMarker, "Show", CommentMarker, TagMarker, "gems", "t1">>,
         <<CommentMarker, "Class", "Gems">> >>,
      << <<"Show">>, <<"Class", "Currency", "Gems">>, <<>> >> }

\* the sequences of distinct blocks
MatchTexts ==
    {Concatenation(blocks) :
        blocks \in {b \in SeqsUpTo(MatchBlocks, MaxMatchBlocks) :
                       \A i, j \in 1..Len(b) : i # j => b[i] # b[j]}}

SampleItems ==
    { << <<"Class", "Currency">>, <<"BaseType", "Chaos">>, <<"Rarity", "Normal">> >>,
      << <<"Class", "Currency">>, <<"BaseType", "Exalted">> >>,
      << <<"Class", "Gems">>, <<"Sockets", "1">> >>,
      << <<"Class", "Armour">>, <<"Rarity", "Rare">>, <<"Sockets", "6">> >> }

MatchRuleCalls ==
    { Call("set_rule_visibility", << <<"currency">>, <<"t1">>, <<"disable">> >>),
      Call("set_rule_visibility", << <<"currency">>, <<"t2">>, <<"hide">> >>),
      Call("set_rule_visibility", << <<"gems">>, <<"t1">>, <<"show">> >>) }

MatchInit ==
    /\ LIdle /\ QIdle /\ TIdle
    /\ changes_file = <<>>
    /\ \E text \in MatchTexts : out_filter = [BaseFilter EXCEPT !.document = Parse(text)]
    /\ cli_output = EmptyText
    /\ c_last = NoCall
    /\ c_n = 0

MatchRuleCall ==
    \E call \in MatchRuleCalls :
        /\ c_n < MaxMatchCalls
        /\ Invoke(call.name, call.params, <<>>)

MatchItemCall ==
    \E item_text_lines \in SampleItems :
        /\ c_n < MaxMatchCalls
        /\ Invoke(<<"get_rule_matching_item">>, <<>>, item_text_lines)

MatchNext == MatchRuleCall \/ MatchItemCall

MatchSpec == MatchInit /\ [][MatchNext]_vars

---------------------------------------------------------------------------
(* ChaosSpec: the chaos-recipe commands.                                   *)

MaxChaosCalls == 3

ChaosSlots == { <<"Weapons">>, <<"Body", SP, "Armours">>, <<"Rings">> }

ChaosCalls ==
    {Call("set_chaos_recipe_enabled_for", <<item_slot, <<flag>> >>) :
        item_slot \in ChaosSlots, flag \in {"0", "1"}}
    \cup { Call("set_chaos_recipe_enabled_for", << <<"Quivers">>, <<"1">> >>),
           Call("set_chaos_recipe_enabled_for", << <<"Rings">>, <<"yes">> >>),
           Call("set_chaos_recipe_enabled_for", << <<"Rings">>, <<"2">> >>) }

ChaosQueries ==
    {Call("is_chaos_recipe_enabled_for", <<item_slot>>) : item_slot \in ChaosSlots}
    \cup {Call("get_all_chaos_recipe_statuses", <<>>)}

ChaosInit == CIdle /\ LIdle /\ QIdle /\ TIdle

SetChaosRecipeCall ==
    \E call \in ChaosCalls :
        /\ c_n < MaxChaosCalls
        /\ Invoke(call.name, call.params, <<>>)

GetChaosRecipeCall ==
    \E call \in ChaosQueries :
        /\ c_n < MaxChaosCalls
        /\ Invoke(call.name, call.params, <<>>)

ChaosNext == SetChaosRecipeCall \/ GetChaosRecipeCall

ChaosSpec == ChaosInit /\ [][ChaosNext]_vars

---------------------------------------------------------------------------
(* ScriptSpec: mutators of several kinds are applied one at a time; the    *)
(* changes file they leave is the replay script of an import.              *)

MaxScriptCalls == 3

ScriptCalls ==
    { Call("set_basetype_visibility", <<HubrisCirclet, <<"1">>>>),
      Call("set_basetype_visibility", <<HubrisCirclet, <<"0">>>>),
      Call("set_currency_to_tier", <<ChaosOrb, <<"2">>>>),
      Call("set_currency_to_tier", <<ChromaticOrb, <<"1">>>>),
      Call("add_remove_socket_rule", <<<<"R", "-", "G">>, <<"1">>>>),
      Call("add_remove_socket_rule", <<<<"r", "-", "g">>, <<"Any">>, <<"0">>>>),
      Call("set_rule_visibility", << <<"currency">>, <<"t1">>, <<"disable">> >>),
      Call("set_rule_visibility", << <<"currency">>, <<"t2">>, <<"show">> >>),
      Call("set_hide_essences_above_tier", <<<<"1">>>>),
      Call("set_chaos_recipe_enabled_for", << <<"Rings">>, <<"1">> >>) }

ScriptInit == CIdle /\ LIdle /\ QIdle /\ TIdle

ScriptMutate ==
    \E call \in ScriptCalls :
        /\ c_n < MaxScriptCalls
        /\ Invoke(call.name, call.params, <<>>)

ScriptImport ==
    \E function_name \in ImportNames :
        /\ c_n < MaxScriptCalls
        /\ Invoke(function_name, <<>>, <<>>)

ScriptNext == ScriptMutate \/ ScriptImport

ScriptSpec == ScriptInit /\ [][ScriptNext]_vars

---------------------------------------------------------------------------
(* ExitSpec: main, step by step.  q_input is sys.argv after the script     *)
(* name, q_line the exit-code file, q_pc the position in main.             *)

MaxExitCalls == 3

ExitCalls ==
    { Call("set_currency_to_tier", <<ChaosOrb, <<"2">>>>),
      Call("set_currency_to_tier", <<ChaosOrb, <<"a">>>>),
      Call("get_tier_of_currency", <<ChaosOrb>>),
      Call("set_rule_visibility", << <<"currency">>, <<"t1">>, <<"dim">> >>),
      Call("get_tier_of_currency", <<>>),
      Call("adjust_currency_tier", <<ChromaticOrb, <<"a">>>>) }

ExitInit ==
    /\ CIdle /\ LIdle /\ TIdle
    /\ q_input = <<>>
    /\ q_line = <<>>
    /\ q_tokens = ShlexError
    /\ q_pc = "idle"

\* file_helper.WriteToFile('-1', kExitCodeFilename)
MainStart ==
    /\ q_pc = "idle"
    /\ c_n < MaxExitCalls
    /\ \E call \in ExitCalls : q_input' = <<call.name>> \o call.params
    /\ q_line' = kInProgressExitCode
    /\ q_pc' = "main_impl"
    /\ UNCHANGED <<q_tokens, t_vars, l_vars, c_vars>>

\* main_impl() returns or raises
MainImplStep ==
    /\ q_pc = "main_impl"
    /\ RunMainImpl(Head(q_input), Tail(q_input), <<>>)
    /\ q_pc' = IF c_last'.ok THEN "returned" ELSE "raised"
    /\ UNCHANGED <<q_input, q_line, q_tokens>>

\* file_helper.WriteToFile('0' or '1', kExitCodeFilename)
MainExit ==
    /\ q_pc \in {"returned", "raised"}
    /\ q_line' = ExitCode(q_pc = "returned")
    /\ q_pc' = "idle"
    /\ UNCHANGED <<q_input, q_tokens, t_vars, l_vars, c_vars>>

ExitNext == MainStart \/ MainImplStep \/ MainExit

ExitSpec == ExitInit /\ [][ExitNext]_vars

---------------------------------------------------------------------------
(* TestSpec: backend_cli.py run on a whole argument list, as the test      *)
(* suite and a frontend issue it.  q_input is sys.argv after the script    *)
(* name of the last run.                                                   *)

\* ValidateAndParseArguments on sys.argv after the script name: ok is FALSE
\* when it raises (no function, a name that is no key of kFunctionInfoMap, no
\* profile, a wrong number of parameters, a profile that does not exist)
ValidateAndParseArguments(argv, profile_names) ==
    LET raised == [ok |-> FALSE, function_name |-> <<>>, function_params |-> <<>>,
                   profile_name |-> None]
    IN IF Len(argv) < 1 THEN raised
       ELSE LET function_name == Head(argv)
                remaining_params == Tail(argv)
            IN IF ~IsFunctionName(function_name) THEN raised
               ELSE LET has_profile == FunctionInfo(function_name).HasProfileParam
                    IN IF has_profile /\ Len(remaining_params) = 0 THEN raised
                       ELSE LET function_params ==
                                    IF has_profile
                                    THEN SubSeq(remaining_params, 1, Len(remaining_params) - 1)
                                    ELSE remaining_params
                                profile_name ==
                                    IF has_profile
                                    THEN remaining_params[Len(remaining_params)]
                                    ELSE None
                            IN IF Len(function_params)
                                      \notin FunctionInfo(function_name).NumParamsOptions
                               THEN raised
                               ELSE IF has_profile /\ profile_name \notin profile_names
                               THEN raised
                               ELSE [ok |-> TRUE, function_name |-> function_name,
                                     function_params |-> function_params,
                                     profile_name |-> profile_name]

MaxTestCalls == 3

kTestProfileName == <<"TestProfile">>

TestProfileNames == {kTestProfileName}

\* the argument lists of TestRunBatchCli and TestBackendCli after "TEST"
TestSuiteCommands ==
    { << <<"import_downloaded_filter">>, <<"only_if_missing">> >>,
      << <<"run_batch">> >>,
      << <<"import_downloaded_filter">> >>,
      << <<"adjust_currency_tier">>, ChromaticOrb, <<"-2">> >>,
      << <<"set_currency_tier">>, ChromaticOrb, <<"5">> >>,
      << <<"get_all_currency_tiers">> >>,
      << <<"set_hide_currency_above_tier">>, <<"8">> >>,
      << <<"get_hide_currency_above_tier">> >>,
      << <<"set_hide_map_below_tier">>, <<"14">> >>,
      << <<"get_hide_map_below_tier">> >>,
      << <<"set_flask_rule_enabled_for">>, QuartzFlask, <<"1">> >>,
      << <<"is_flask_rule_enabled_for">>, <<"Quicksilver", SP, "Flask">> >>,
      << <<"get_all_enabled_flask_types">> >>,
      << <<"set_chaos_recipe_enabled_for">>, <<"Weapons">>, <<"0">> >>,
      << <<"is_chaos_recipe_enabled_for">>, <<"Body", SP, "Armours">> >>,
      << <<"get_all_chaos_recipe_statuses">> >>,
      << <<"undo_last_change">> >> }

\* argument lists a frontend issues: the function, its parameters, the profile
FrontendCommands ==
    { << <<"import_downloaded_filter">>, kTestProfileName >>,
      << <<"get_all_currency_tiers">>, kTestProfileName >>,
      << <<"set_currency_to_tier">>, ChromaticOrb, <<"5">>, kTestProfileName >>,
      << <<"set_currency_to_tier">>, ChaosOrb, <<"2">>, kTestProfileName >>,
      << <<"set_chaos_recipe_enabled_for">>, <<"Weapons">>, <<"0">>, kTestProfileName >>,
      << <<"set_chaos_recipe_enabled_for">>, <<"Weapons">>, <<"1">>, kTestProfileName >>,
      << <<"is_chaos_recipe_enabled_for">>, <<"Body", SP, "Armours">>, kTestProfileName >>,
      << <<"get_all_chaos_recipe_statuses">>, kTestProfileName >>,
      << <<"get_all_chaos_recipe_statuses">>, <<"NoSuchProfile">> >>,
      << <<"get_all_chaos_recipe_statuses">> >> }

TestInit == CIdle /\ LIdle /\ QIdle /\ TIdle

\* main_impl on an argument list: ValidateAndParseArguments, then the call
RunArgv(argv) ==
    /\ c_n < MaxTestCalls
    /\ q_input' = argv
    /\ UNCHANGED <<q_line, q_tokens, q_pc>>
    /\ \E parsed \in {ValidateAndParseArguments(argv, TestProfileNames)} :
          IF parsed.ok
          THEN RunMainImpl(parsed.function_name, parsed.function_params, <<>>)
          ELSE /\ c_last' = [name |-> <<>>, params |-> argv, input |-> <<>>,
                             ok |-> FALSE, events |-> <<>>,
                             filter_before |-> out_filter,
                             changes_before |-> changes_file]
               /\ c_n' = c_n + 1
               /\ UNCHANGED <<out_filter, changes_file, cli_output, t_vars,
                              l_hist, l_before, l_ok>>

\* python3 backend_cli.py TEST <function call>
TestSuiteCall == \E command \in TestSuiteCommands : RunArgv(<< <<"TEST">> >> \o command)

\* python3 backend_cli.py <function call> <profile>
FrontendCall == \E command \in FrontendCommands : RunArgv(command)

TestNext == TestSuiteCall \/ FrontendCall

TestSpec == TestInit /\ [][TestNext]_vars

---------------------------------------------------------------------------
(* The profiles.  profile.py is not part of the sources at hand: the       *)
(* definitions below follow the command documentation of backend_cli.py    *)
(* and the tests of profile_test.py.  A profile store is the profile names *)
(* in the order the profile directory lists them (here: of creation) and   *)
(* the name of the active profile, None when there is none.                *)

NoProfiles == [names |-> <<>>, active |-> None]

Range(seq) == {seq[i] : i \in 1..Len(seq)}

ProfileExists(store, profile_name) == profile_name \in Range(store.names)

GetActiveProfileName(store) == store.active

\* the active profile first, then the others in the order of the directory
GetAllProfileNames(store) ==
    IF store.active = None THEN store.names
    ELSE <<store.active>> \o SelectSeq(store.names, LAMBDA name : name # store.active)

\* A plausible bug: the new profile is written without being made active
CreateNewProfileNotActivating(store, new_profile_name) ==
    IF ProfileExists(store, new_profile_name) THEN [created |-> FALSE, store |-> store]
    ELSE [created |-> TRUE,
          store |-> [store EXCEPT !.names = Append(@, new_profile_name),
                                  !.active = IF @ = None THEN new_profile_name ELSE @]]

\* CreateNewProfile: nothing happens (and None is returned) when the profile
\* exists; otherwise the profile is created and becomes the active profile
CreateNewProfile(store, new_profile_name) ==
    IF ProfileExists(store, new_profile_name) THEN [created |-> FALSE, store |-> store]
    ELSE [created |-> TRUE,
          store |-> [names |-> Append(store.names, new_profile_name),
                     active |-> new_profile_name]]

\* A plausible bug: the files are copied to the new name, not moved
RenameProfileKeepingOriginal(store, original_profile_name, new_profile_name) ==
    [ok |-> ProfileExists(store, original_profile_name),
     store |-> IF ProfileExists(store, new_profile_name) THEN store
               ELSE [store EXCEPT !.names = Append(@, new_profile_name)]]

\* RenameProfile: raises when the original profile does not exist; the files
\* are moved to the new name (over a profile of that name, if there is one)
\* and the active profile follows the rename
RenameProfile(store, original_profile_name, new_profile_name) ==
    IF ~ProfileExists(store, original_profile_name) THEN [ok |-> FALSE, store |-> store]
    ELSE IF original_profile_name = new_profile_name THEN [ok |-> TRUE, store |-> store]
    ELSE LET others == SelectSeq(store.names, LAMBDA name : name # new_profile_name)
         IN [ok |-> TRUE,
             store |-> [names |-> [i \in 1..Len(others) |->
                                      IF others[i] = original_profile_name
                                      THEN new_profile_name ELSE others[i]],
                        active |-> IF store.active = original_profile_name
                                   THEN new_profile_name ELSE store.active]]

\* A plausible bug: general.config is left alone when the active profile is
\* deleted
DeleteProfileKeepingActive(store, profile_name) ==
    IF ~ProfileExists(store, profile_name) THEN {}
    ELSE {[store EXCEPT !.names = SelectSeq(@, LAMBDA name : name # profile_name)]}

\* DeleteProfile: the stores it may leave, none when it raises (the profile
\* does not exist).  When the active profile is deleted another profile
\* becomes active; which one is not documented.
DeleteProfile(store, profile_name) ==
    IF ~ProfileExists(store, profile_name) THEN {}
    ELSE LET remaining == SelectSeq(store.names, LAMBDA name : name # profile_name)
         IN IF store.active # profile_name
            THEN {[names |-> remaining, active |-> store.active]}
            ELSE IF remaining = <<>> THEN {NoProfiles}
            ELSE {[names |-> remaining, active |-> name] : name \in Range(remaining)}

\* SetActiveProfile: raises when the profile does not exist
SetActiveProfile(store, new_active_profile_name) ==
    IF ~ProfileExists(store, new_active_profile_name) THEN [ok |-> FALSE, store |-> store]
    ELSE [ok |-> TRUE, store |-> [store EXCEPT !.active = new_active_profile_name]]

ProfileRaised(store) == {[ok |-> FALSE, store |-> store, output |-> EmptyText]}

ProfileReturned(store, output_string) ==
    [ok |-> TRUE, store |-> store, output |-> output_string]

\* is_first_launch
IsFirstLaunchCall(store, function_params) ==
    IF ~CheckNumParams(function_params, 0) THEN ProfileRaised(store)
    ELSE {ProfileReturned(store, <<IF Len(GetAllProfileNames(store)) = 0
                                   THEN <<"1">> ELSE <<"0">> >>)}

\* get_all_profile_names: '\n'.join(profile_names_list)
GetAllProfileNamesCall(store, function_params) ==
    IF ~CheckNumParams(function_params, 0) THEN ProfileRaised(store)
    ELSE {ProfileReturned(store, IF GetAllProfileNames(store) = <<>> THEN EmptyText
                                 ELSE GetAllProfileNames(store))}

\* A plausible bug: the output does not depend on what CreateNewProfile returned
CreateNewProfileCallAlwaysCreated(store, function_params) ==
    IF ~CheckNumParams(function_params, 1) THEN ProfileRaised(store)
    ELSE {ProfileReturned(CreateNewProfile(store, function_params[1]).store, << <<"1">> >>)}

\* create_new_profile: str(int(created_profile != None))
CreateNewProfileCall(store, function_params) ==
    IF ~CheckNumParams(function_params, 1) THEN ProfileRaised(store)
    ELSE LET created_profile == CreateNewProfile(store, function_params[1])
         IN {ProfileReturned(created_profile.store,
                             <<IF created_profile.created THEN <<"1">> ELSE <<"0">> >>)}

\* rename_profile
RenameProfileCall(store, function_params) ==
    IF ~CheckNumParams(function_params, 2) THEN ProfileRaised(store)
    ELSE LET renamed == RenameProfile(store, function_params[1], function_params[2])
         IN IF ~renamed.ok THEN ProfileRaised(store)
            ELSE {ProfileReturned(renamed.store, EmptyText)}

\* delete_profile
DeleteProfileCall(store, function_params) ==
    IF ~CheckNumParams(function_params, 1) THEN ProfileRaised(store)
    ELSE IF DeleteProfile(store, function_params[1]) = {} THEN ProfileRaised(store)
    ELSE {ProfileReturned(after, EmptyText) : after \in DeleteProfile(store, function_params[1])}

\* set_active_profile
SetActiveProfileCall(store, function_params) ==
    IF ~CheckNumParams(function_params, 1) THEN ProfileRaised(store)
    ELSE LET set == SetActiveProfile(store, function_params[1])
         IN IF ~set.ok THEN ProfileRaised(store)
            ELSE {ProfileReturned(set.store, EmptyText)}

\* The profile branches of the if/elif chain: the results the call may have
ProfileBranch(store, function_name, function_params) ==
    CASE function_name = <<"is_first_launch">> -> IsFirstLaunchCall(store, function_params)
      [] function_name = <<"get_all_profile_names">> ->
            GetAllProfileNamesCall(store, function_params)
      [] function_name = <<"create_new_profile">> ->
            CreateNewProfileCall(store, function_params)
      [] function_name = <<"rename_profile">> -> RenameProfileCall(store, function_params)
      [] function_name = <<"delete_profile">> -> DeleteProfileCall(store, function_params)
      [] function_name = <<"set_active_profile">> ->
            SetActiveProfileCall(store, function_params)
      [] OTHER -> ProfileRaised(store)

---------------------------------------------------------------------------
(* ProfileSpec: the profile commands, one invocation after the other.      *)
(* q_input is the profile names as the profile directory lists them,       *)
(* q_line the active profile of general.config.                            *)

MaxProfileCalls == 4

ProfileNames == {kTestProfileName, <<"OtherProfile">>, <<"RenamedProfile">>}

ProfileCalls ==
    {Call("create_new_profile", <<p>>) : p \in ProfileNames}
    \cup {Call("rename_profile", <<p, q>>) : p, q \in ProfileNames}
    \cup {Call("delete_profile", <<p>>) : p \in ProfileNames}
    \cup {Call("set_active_profile", <<p>>) : p \in ProfileNames}
    \cup {Call("get_all_profile_names", <<>>), Call("is_first_launch", <<>>),
          Call("create_new_profile", <<>>)}

ProfileStore == [names |-> q_input, active |-> q_line]

ProfileInit ==
    /\ CIdle /\ LIdle /\ TIdle
    /\ q_input = NoProfiles.names
    /\ q_line = NoProfiles.active
    /\ q_tokens = ShlexError
    /\ q_pc = "idle"

\* One run of backend_cli.py <function_name> <function_params...> for a
\* function without a profile parameter
ProfileCall ==
    /\ c_n < MaxProfileCalls
    /\ \E call \in ProfileCalls :
       \E result \in IF ValidArguments(call.name, call.params)
                     THEN ProfileBranch(ProfileStore, call.name, call.params)
                     ELSE ProfileRaised(ProfileStore) :
          /\ q_input' = result.store.names
          /\ q_line' = result.store.active
          /\ cli_output' = IF result.ok THEN WriteOutput(result.output) ELSE cli_output
          /\ c_last' = [name |-> call.name, params |-> call.params, input |-> <<>>,
                        ok |-> result.ok, events |-> <<>>,
                        filter_before |-> out_filter, changes_before |-> changes_file]
          /\ c_n' = c_n + 1
    /\ UNCHANGED <<q_tokens, q_pc, out_filter, changes_file, t_vars, l_hist, l_before, l_ok>>

ProfileNext == ProfileCall

ProfileSpec == ProfileInit /\ [][ProfileNext]_vars

---------------------------------------------------------------------------
(* RecordSpec: mutators with an optional parameter, given and omitted,     *)
(* issued directly and as lines of a batch.                                *)

MaxRecordCalls == 3

RecordCalls ==
    { Call("set_basetype_visibility", <<HubrisCirclet, <<"1">>>>),
      Call("set_basetype_visibility", <<HubrisCirclet, <<"1">>, <<"1">>>>),
      Call("set_flask_visibility", <<QuartzFlask, <<"1">>>>),
      Call("add_remove_socket_rule", <<<<"R", "-", "G">>, <<"1">>>>),
      Call("set_hide_maps_below_tier", <<<<"14">>>>),
      Call("set_basetype_visibility", <<<<"a", TAB, "b">>, <<"1">>>>) }

RecordBatchInputs ==
    { << <<"set_flask_visibility", SP, DQ, "Quartz", SP, "Flask", DQ, SP, "0">>,
         <<"add_remove_socket_rule", SP, "B-B", SP, "1">> >>,
      << <<"set_basetype_visibility", SP, DQ, "Hubris", SP, "Circlet", DQ, SP, "0">>,
         <<"set_hide_maps_below_tier", SP, "10">> >> }

RecordInit == CIdle /\ LIdle /\ QIdle /\ TIdle

RecordDirectCall ==
    \E call \in RecordCalls :
        /\ c_n < MaxRecordCalls
        /\ Invoke(call.name, call.params, <<>>)

RecordBatchCall ==
    \E input_file \in RecordBatchInputs :
        /\ c_n < MaxRecordCalls
        /\ Invoke(<<"run_batch">>, <<>>, input_file)

RecordNext == RecordDirectCall \/ RecordBatchCall

RecordSpec == RecordInit /\ [][RecordNext]_vars

---------------------------------------------------------------------------
(* NestSpec: batches and imports over input files and changes files that   *)
(* name import_downloaded_filter, load_input_filter or run_batch in a line *)

MaxNestCalls == 3

NestingNames == ImportNames \cup {<<"run_batch">>}

\* changes files as the tool writes them and with a line added by hand
NestChangesFiles ==
    { <<>>,
      << <<"set_currency_to_tier", SP, DQ, "Chaos", SP, "Orb", DQ, SP, "2">> >>,
      << <<"set_currency_to_tier", SP, DQ, "Chaos", SP, "Orb", DQ, SP, "2">>,
         <<"import_downloaded_filter">> >>,
      << <<"load_input_filter">> >>,
      << <<"run_batch">>,
         <<"set_currency_to_tier", SP, DQ, "Chaos", SP, "Orb", DQ, SP, "2">> >> }

NestBatchInputs ==
    { << <<"set_currency_to_tier", SP, DQ, "Chaos", SP, "Orb", DQ, SP, "3">>,
         <<"get_tier_of_currency", SP, DQ, "Chaos", SP, "Orb", DQ>> >>,
      << <<"run_batch">> >>,
      << <<"get_tier_of_currency", SP, DQ, "Chaos", SP, "Orb", DQ>>,
         <<"import_downloaded_filter">> >>,
      << <<"set_hide_essences_above_tier", SP, "1">>,
         <<"load_input_filter">>,
         <<"set_hide_essences_above_tier", SP, "2">> >> }

NestInit ==
    /\ CIdle /\ QIdle /\ TIdle
    /\ changes_file \in NestChangesFiles
    /\ l_hist = <<>> /\ l_before = <<>> /\ l_ok = TRUE

NestBatchCall ==
    \E input_file \in NestBatchInputs :
        /\ c_n < MaxNestCalls
        /\ Invoke(<<"run_batch">>, <<>>, input_file)

NestImportCall ==
    \E function_name \in ImportNames :
        /\ c_n < MaxNestCalls
        /\ Invoke(function_name, <<>>, <<>>)

NestNext == NestBatchCall \/ NestImportCall

NestSpec == NestInit /\ [][NestNext]_vars

---------------------------------------------------------------------------
(* Reading a token list: its match key and its value                       *)

MatchArity(function_tokens) == FunctionInfo(function_tokens[1]).NumParamsForMatch

\* the function name and the first NumParamsForMatch parameters
KeyOf(function_tokens) == SubSeq(function_tokens, 1, MatchArity(function_tokens) + 1)

\* the parameter that follows the key
ValueOf(function_tokens) == function_tokens[MatchArity(function_tokens) + 2]

KeysOf(token_lists) == [i \in 1..Len(token_lists) |-> KeyOf(token_lists[i])]

Flatten(changes) == ConvertChangesDictToFunctionListRec(changes, <<>>)

RECURSIVE MergeAll(_, _)
\* the changes dict after merging the token lists of hist, in order, into changes
MergeAll(hist, changes) ==
    IF hist = <<>> THEN changes
    ELSE MergeAll(Tail(hist), AddFunctionToChangesDict(Head(hist), changes).dict)

\* the index of the first element of sequence s equal to x (0: none)
IndexIn(s, x) ==
    IF \E i \in 1..Len(s) : s[i] = x
    THEN CHOOSE i \in 1..Len(s) : s[i] = x /\ \A j \in 1..(i - 1) : s[j] # x
    ELSE 0

\* the last h with KeyOf(hist[h]) = key
LastMerge(hist, key) ==
    CHOOSE h \in 1..Len(hist) :
        /\ KeyOf(hist[h]) = key
        /\ \A g \in (h + 1)..Len(hist) : KeyOf(hist[g]) # key

\* the first h at which hist[h] starts with the token path prefix
FirstSeen(hist, prefix) ==
    CHOOSE h \in 1..Len(hist) :
        /\ Len(hist[h]) >= Len(prefix) /\ SubSeq(hist[h], 1, Len(prefix)) = prefix
        /\ \A g \in 1..(h - 1) :
              ~(Len(hist[g]) >= Len(prefix) /\ SubSeq(hist[g], 1, Len(prefix)) = prefix)

\* the first index at which two different keys differ
FirstDifference(k1, k2) ==
    CHOOSE d \in 1..Len(k1) :
        /\ d <= Len(k2) /\ k1[d] # k2[d]
        /\ \A e \in 1..(d - 1) : k1[e] = k2[e]

OneLineHoldingLast(hist, flat) ==
    \A h \in 1..Len(hist) :
        LET key == KeyOf(hist[h])
            at == {i \in 1..Len(flat) : KeyOf(flat[i]) = key}
        IN /\ Cardinality(at) = 1
           /\ \A i \in at : ValueOf(flat[i]) = ValueOf(hist[LastMerge(hist, key)])

---------------------------------------------------------------------------
(* Claims on the changes dict (TrieSpec)                                   *)

\* C2 (as stated): merging one key N times, other commands interleaved, leaves
\* exactly one flattened line for the key, holding the last value, at the index
\* the key had in the flattened list right after it was first inserted.
C2_PositionOfFirstInsertion ==
    /\ OneLineHoldingLast(t_hist, Flatten(changes_dict))
    /\ \A h \in 1..Len(t_hist) :
          LET key == KeyOf(t_hist[h])
              first == FirstSeen(t_hist, key)
              then == KeysOf(Flatten(MergeAll(SubSeq(t_hist, 1, first), <<>>)))
          IN IndexIn(KeysOf(Flatten(changes_dict)), key) = IndexIn(then, key)

\* C2 (amended): exactly one flattened line per merged key, holding the last
\* value merged for it; merging a key that is already there moves no line, and
\* merging a new key leaves the lines that were there in the same order.
C2_OneLineLastValueSamePlace ==
    /\ OneLineHoldingLast(t_hist, Flatten(changes_dict))
    /\ t_hist # <<>> =>
          LET merged == KeyOf(t_hist[Len(t_hist)])
              before == KeysOf(Flatten(MergeAll(SubSeq(t_hist, 1, Len(t_hist) - 1), <<>>)))
              after == KeysOf(Flatten(changes_dict))
          IN IF IndexIn(before, merged) # 0
             THEN after = before
             ELSE SelectSeq(after, LAMBDA k : k # merged) = before

\* C2 witness: a key was merged, another command was merged after it, and the
\* key was merged again with another value.
C2_Witness ==
    \E h1, h2, h3 \in 1..Len(t_hist) :
        /\ h1 < h2 /\ h2 < h3
        /\ KeyOf(t_hist[h1]) = KeyOf(t_hist[h3])
        /\ KeyOf(t_hist[h2]) # KeyOf(t_hist[h1])
        /\ ValueOf(t_hist[h1]) # ValueOf(t_hist[h3])

\* C4 (as stated): of two keys in the change log, the one first recorded
\* earlier in the command history comes earlier in the flattened (replay) order.
C4_GlobalFirstInsertionOrder ==
    LET keys == KeysOf(Flatten(changes_dict))
    IN \A i, j \in 1..Len(keys) :
          i < j => FirstSeen(t_hist, keys[i]) < FirstSeen(t_hist, keys[j])

\* C4 (amended): the flattened (replay) order is depth-first first-insertion
\* order: of two keys, the one comes earlier whose token path, cut after the
\* first token in which the two differ, was first recorded earlier in the
\* command history; which key was updated last plays no part.
C4_DepthFirstInsertionOrder ==
    LET keys == KeysOf(Flatten(changes_dict))
    IN \A i, j \in 1..Len(keys) :
          i < j =>
             LET d == FirstDifference(keys[i], keys[j])
             IN FirstSeen(t_hist, SubSeq(keys[i], 1, d))
                    < FirstSeen(t_hist, SubSeq(keys[j], 1, d))

\* C4 witness: two keys are in the log and the one that is replayed first was
\* updated after the other one was last updated.
C4_Witness ==
    LET keys == KeysOf(Flatten(changes_dict))
    IN \E i, j \in 1..Len(keys) :
          /\ i < j
          /\ LastMerge(t_hist, keys[i]) > LastMerge(t_hist, keys[j])

---------------------------------------------------------------------------
(* Claims on the changes file (LogSpec, CorruptLogSpec) and on quoting     *)

LineTokens(line) == ShlexSplit(Strip(line)).tokens

\* C3: after any sequence of UpdateProfileChangesFile calls on a changes file
\* that started empty, the file holds exactly one line per distinct key
\* (function name, first NumParamsForMatch parameters) of the calls: no key
\* twice, no key lost.
C3_OneLinePerDistinctKey ==
    LET issued == {KeyOf(l_hist[h]) : h \in 1..Len(l_hist)}
        held == [i \in 1..Len(changes_file) |-> KeyOf(LineTokens(changes_file[i]))]
    IN /\ {held[i] : i \in 1..Len(held)} = issued
       /\ \A i, j \in 1..Len(held) : i # j => held[i] # held[j]

\* C7: for every string s without a double quote, tokenizing the quoted form
\* of s gives exactly [s].
C7_QuotingRoundTrip ==
    (q_pc = "done" /\ \A i \in 1..Len(q_input) : q_input[i] # DQ)
        => q_tokens = [ok |-> TRUE, tokens |-> <<q_input>>]

\* a line the claim calls malformed: the tokenizer fails on it, its first token
\* is no function name with a match arity, or it has not exactly
\* NumParamsForMatch + 1 parameters
Malformed(line) ==
    LET split == ShlexSplit(Strip(line))
    IN \/ ~split.ok
       \/ split.tokens = <<>>
       \/ ~HasNumParamsForMatch(split.tokens[1])
       \/ Len(split.tokens) # MatchArity(split.tokens) + 2

\* C8: when the changes file holds a malformed line, UpdateProfileChangesFile
\* raises and leaves the file as it was.
C8_MalformedLineFailsFast ==
    (l_hist # <<>> /\ \E i \in 1..Len(l_before) : Malformed(l_before[i]))
        => (~l_ok /\ changes_file = l_before)

---------------------------------------------------------------------------
(* Claims on invocations of backend_cli.py                                 *)

Events == c_last.events

\* the events of the calls made for the lines of a batch, and of the saves
BatchCallEvents == {i \in DOMAIN Events : Events[i].ev = "call" /\ Events[i].in_batch}
SaveEvents == {i \in DOMAIN Events : Events[i].ev = "save"}

CompletedBatch == c_last.ok /\ c_last.name = <<"run_batch">>

\* C1: after any sequence of successful mutating commands applied one at a time
\* to the filter loaded from the base file, importing the base file again and
\* replaying the changes file gives the filter the command history had produced.
C1_ReplayReproducesHistory ==
    (c_last.ok /\ c_last.name \in ImportNames) => out_filter = c_last.filter_before

\* C5: every mutating command that completed, issued directly or as a line of
\* a batch, leaves the changes file with a line whose tokens start with the
\* command's name and match key and end with the command's last parameter.
C5_MutatorLeavesItsLine ==
    \A i \in DOMAIN Events :
        (Events[i].ev = "call" /\ Events[i].mutator /\ ~Events[i].replay) =>
            \E j \in DOMAIN Events[i].changes :
                LET split == ShlexSplit(Strip(Events[i].changes[j]))
                    arity == MatchArity(Events[i].tokens)
                IN /\ split.ok
                   /\ Len(split.tokens) >= arity + 2
                   /\ SubSeq(split.tokens, 1, arity + 1) = KeyOf(Events[i].tokens)
                   /\ split.tokens[Len(split.tokens)]
                          = Events[i].tokens[Len(Events[i].tokens)]

\* every call of the batch starts from the filter the call before it left in
\* memory, the first from the filter the invocation loaded
SameInMemoryFilter ==
    \A i \in BatchCallEvents :
        LET earlier == {j \in BatchCallEvents : j < i}
        IN Events[i].before =
              IF earlier = {} THEN c_last.filter_before
              ELSE Events[CHOOSE j \in earlier : \A k \in earlier : k <= j].after

\* a save comes after every call of the batch and writes the filter they left
SaveFollowsBatch ==
    \A s \in SaveEvents :
        /\ \A i \in BatchCallEvents : i < s /\ (\A k \in BatchCallEvents : k <= i)
                                          => Events[s].after = Events[i].after
        /\ \A i \in BatchCallEvents : i < s
        /\ out_filter = Events[s].after

\* C6 (as stated): a run_batch invocation applies all its commands to the same
\* in-memory filter and saves the filter exactly once, after the last command;
\* no command of the batch saves on its own.
C6_BatchSavesExactlyOnce ==
    CompletedBatch =>
        /\ SameInMemoryFilter
        /\ Cardinality(SaveEvents) = 1
        /\ SaveFollowsBatch

\* C6 (amended): a run_batch invocation that completes applies all its commands
\* to the same in-memory filter; it saves the filter exactly once, after the
\* last command, when one of its commands is a mutating command, and not at all
\* otherwise; no command of the batch saves on its own.
C6_BatchSavesOnceIfItMutates ==
    CompletedBatch =>
        /\ SameInMemoryFilter
        /\ Cardinality(SaveEvents) =
              IF \E i \in BatchCallEvents : Events[i].mutator THEN 1 ELSE 0
        /\ SaveFollowsBatch
        /\ SaveEvents = {} => out_filter = c_last.filter_before

\* a completed batch of several commands, a query after a mutator among them,
\* that changed the filter and saved it
C6_Witness ==
    /\ CompletedBatch
    /\ Cardinality(BatchCallEvents) >= 3
    /\ \E i, j \in BatchCallEvents : i < j /\ Events[i].mutator /\ ~Events[j].mutator
    /\ SaveEvents # {}
    /\ out_filter # c_last.filter_before

\* C9: for every currency name c and tier t in 1..9, after set_currency_to_tier
\* c t from any reachable state, get_tier_of_currency c gives t, and no rule of
\* another tier, unstacked or stacked, lists c.
C9_CurrencyInTargetTierOnly ==
    (c_last.ok /\ c_last.name = <<"set_currency_to_tier">>) =>
        LET c == c_last.params[1]
            t == IntOf(c_last.params[2])
        IN t \in 1..NumCurrencyTiers =>
              /\ GetTierOfCurrency(out_filter, c) = t
              /\ GetTierOfCurrencyCall(out_filter, <<c>>).output = <<StrOf(t)>>
              /\ \A n \in (1..NumCurrencyTiers) \ {t} :
                    c \notin out_filter.unstacked[n] /\ c \notin out_filter.stacked[n]

\* a currency that an earlier call had moved is moved on to a third tier
C9_Witness ==
    /\ c_last.ok /\ c_last.name = <<"set_currency_to_tier">>
    /\ LET c == c_last.params[1]
           t == IntOf(c_last.params[2])
           was == GetTierOfCurrency(c_last.filter_before, c)
       IN /\ was \in 1..NumCurrencyTiers /\ was # t
          /\ was # GetTierOfCurrency(BaseFilter, c)
          /\ GetTierOfCurrency(out_filter, c) = t

\* C10: for the essence, div-card, unique-item and unique-map categories, after
\* set_hide_<category>_above_tier N every tier greater than N is hidden, every
\* tier up to N is shown, and get_hide_<category>_above_tier gives N.
C10_TiersAboveHiddenOthersShown ==
    \A category \in TierCategories :
        (c_last.ok /\ c_last.name = HideAboveTierName(category)) =>
            LET N == IntOf(c_last.params[1])
            IN /\ \A n \in 1..NumTiers :
                     GetTierVisibility(out_filter, category, n)
                         = IF n > N THEN "hide" ELSE "show"
               /\ GetHideAboveTierCall(out_filter, category, <<>>).output = <<StrOf(N)>>

\* the command acts on a category whose first tier was hidden before, and both
\* shows and hides tiers
C10_Witness ==
    \E category \in TierCategories :
        /\ c_last.ok /\ c_last.name = HideAboveTierName(category)
        /\ IntOf(c_last.params[1]) \in 1..(NumTiers - 1)
        /\ GetTierVisibility(c_last.filter_before, category, 1) = "hide"
        /\ GetTierVisibility(out_filter, category, 1) = "show"
        /\ GetTierVisibility(out_filter, category, NumTiers) = "hide"

\* C11: for every M in 0..16, after any earlier set_hide_maps_below_tier calls,
\* set_hide_maps_below_tier M makes get_hide_maps_below_tier give M and hides
\* exactly the map tiers strictly below M.
C11_MapTiersBelowHidden ==
    (c_last.ok /\ c_last.name = <<"set_hide_maps_below_tier">>) =>
        LET M == IntOf(c_last.params[1])
        IN /\ GetHideMapsBelowTierCall(out_filter, <<>>).output = <<StrOf(M)>>
           /\ \A tier \in 1..NumMapTiers : MapTierHidden(out_filter, tier) <=> tier < M

\* the threshold is lowered from one that an earlier call had set, and still
\* hides some tiers and shows others
C11_Witness ==
    /\ c_last.ok /\ c_last.name = <<"set_hide_maps_below_tier">>
    /\ GetHideMapsBelowTierTier(c_last.filter_before) > IntOf(c_last.params[1])
    /\ MapTierHidden(out_filter, 1)
    /\ ~MapTierHidden(out_filter, NumMapTiers)
    /\ \E tier \in 1..NumMapTiers :
          MapTierHidden(c_last.filter_before, tier) /\ ~MapTierHidden(out_filter, tier)

\* the last invocation was a completed set_..._visibility with visibility_flag 0
DisabledBaseType ==
    /\ c_last.ok /\ c_last.name = <<"set_basetype_visibility">>
    /\ IntOf(c_last.params[2]) = 0

DisabledFlask ==
    /\ c_last.ok /\ c_last.name = <<"set_flask_visibility">>
    /\ IntOf(c_last.params[2]) = 0

\* C12: after set_basetype_visibility or set_flask_visibility with
\* visibility_flag 0 for a name, from any reachable state, neither the general
\* nor the narrow rule lists the name: a disable never leaves the name in the
\* narrow rule.
C12_DisableRemovesFromBothRules ==
    /\ DisabledBaseType =>
          /\ c_last.params[1] \notin out_filter.basetypes_any
          /\ c_last.params[1] \notin out_filter.basetypes_rare
          /\ GetBaseTypeVisibilityCall(out_filter, <<c_last.params[1]>>).output
                = << <<"0", SP, "0">> >>
    /\ DisabledFlask =>
          /\ c_last.params[1] \notin out_filter.flasks_any
          /\ c_last.params[1] \notin out_filter.flasks_high_ilvl
          /\ GetFlaskVisibilityCall(out_filter, <<c_last.params[1]>>).output
                = << <<"0", SP, "0">> >>

\* Scenario C: the base type was listed in both rules when it was disabled
C12_Witness ==
    /\ DisabledBaseType
    /\ c_last.params[1] \in c_last.filter_before.basetypes_any
    /\ c_last.params[1] \in c_last.filter_before.basetypes_rare
    /\ c_last.params[1] \notin out_filter.basetypes_rare

\* two socket strings that differ only in separators or letter case, for item
\* slots that differ only in letter case
SameSocketRule(socket_string, item_slot, other_string, other_slot) ==
    /\ SocketList(socket_string) = SocketList(other_string)
    /\ LowerCase(item_slot[1]) = LowerCase(other_slot[1])

\* the stored rules the pattern and item slot of the last add_remove_socket_rule stand for
StoredLike(filter) ==
    LET with_slot == IF Len(c_last.params) = 2
                     THEN <<c_last.params[1], <<"any">>>>
                     ELSE <<c_last.params[1], c_last.params[2]>>
    IN {i \in 1..Len(filter.socket_rules) :
           SameSocketRule(filter.socket_rules[i][1], filter.socket_rules[i][2],
                          with_slot[1], with_slot[2])}

SocketRuleCalled(add_flag) ==
    /\ c_last.ok /\ c_last.name = <<"add_remove_socket_rule">>
    /\ IntOf(c_last.params[Len(c_last.params)]) = add_flag

\* C13: socket patterns that differ only in separators or letter case are the
\* same socket rule: after adding a pattern for an item slot the filter stores
\* exactly one rule for it, however often and however written it was added, and
\* after removing it, however written, the filter stores none.
C13_EquivalentPatternsAreOneRule ==
    /\ SocketRuleCalled(1) => Cardinality(StoredLike(out_filter)) = 1
    /\ SocketRuleCalled(0) => StoredLike(out_filter) = {}
    /\ Len(GetAllAddedSocketRulesCall(out_filter, <<>>).output)
          = IF out_filter.socket_rules = <<>> THEN 1
            ELSE Cardinality({<<SocketList(out_filter.socket_rules[i][1]),
                                out_filter.socket_rules[i][2]>> :
                                  i \in 1..Len(out_filter.socket_rules)})

\* a rule that was added, and added again in another spelling, is removed
\* through a spelling that differs from the stored one
C13_Witness ==
    /\ SocketRuleCalled(0)
    /\ c_n = 3
    /\ Len(c_last.filter_before.socket_rules) = 1
    /\ StoredLike(c_last.filter_before) # {}
    /\ c_last.filter_before.socket_rules[1][1] # c_last.params[1]
    /\ Len(c_last.changes_before) = 2
    /\ out_filter.socket_rules = <<>>


\* the last call was a set_rule_visibility that addressed a tagged rule of the
\* document and did not raise
RuleVisibilitySet ==
    /\ c_last.ok
    /\ c_last.name = <<"set_rule_visibility">>
    /\ RuleIndex(c_last.filter_before.document, c_last.params[1], c_last.params[2]) # 0

\* the rule the last call addressed, in the filter
AddressedRule(filter) ==
    filter.document[RuleIndex(filter.document, c_last.params[1], c_last.params[2])]

\* the filter file after the call is made on the filter file
AfterCall(filter, type_tag, tier_tag, visibility) ==
    LET called == SetRuleVisibilityCall(filter, <<type_tag, tier_tag, <<visibility>> >>)
    IN [called.filter EXCEPT !.document = Parse(Serialize(@))]

\* C14: a visibility transition is idempotent: for every tagged rule of a
\* reachable filter file and every state, set_rule_visibility to that state
\* made twice leaves the rule's text_lines, and the whole file, as made once.
C14_TransitionsIdempotent ==
    \A i \in 1..Len(out_filter.document) :
        LET rule == out_filter.document[i]
        IN (rule.kind = "rule"
              /\ RuleIndex(out_filter.document, rule.type_tag, rule.tier_tag) = i) =>
            \A visibility \in Visibilities :
                LET once == AfterCall(out_filter, rule.type_tag, rule.tier_tag, visibility)
                    twice == AfterCall(once, rule.type_tag, rule.tier_tag, visibility)
                IN /\ twice = once
                   /\ twice.document[i].text_lines = once.document[i].text_lines
                   /\ once.document[i].visibility = visibility

\* a rule was disabled, and then disabled again by a second call
C14_Witness ==
    /\ RuleVisibilitySet
    /\ c_n = 2
    /\ c_last.params[3] = <<"disable">>
    /\ AddressedRule(c_last.filter_before).visibility = "disable"
    /\ \E line \in {"Show", "Hide"} :
           AddressedRule(out_filter).text_lines[1][2] = line

\* C15: after set_rule_visibility ... disable, every line of the rule's
\* text_lines starts with the comment marker.
C15_DisabledLinesCommented ==
    (RuleVisibilitySet /\ c_last.params[3] = <<"disable">>) =>
        LET rule == AddressedRule(out_filter)
        IN \A i \in 1..Len(rule.text_lines) : IsCommented(rule.text_lines[i])

\* a rule that was shown or hidden, of more than one line, was disabled
C15_Witness ==
    /\ RuleVisibilitySet
    /\ c_last.params[3] = <<"disable">>
    /\ AddressedRule(c_last.filter_before).visibility \in {"show", "hide"}
    /\ Len(AddressedRule(out_filter).text_lines) > 1

\* the filter file after n calls that disable the rule
RECURSIVE DisabledTimes(_, _, _, _)
DisabledTimes(filter, type_tag, tier_tag, n) ==
    IF n = 0 THEN filter
    ELSE DisabledTimes(AfterCall(filter, type_tag, tier_tag, "disable"),
                       type_tag, tier_tag, n - 1)

\* C16: disabling is lossless: a rule that is shown or hidden, disabled one or
\* more times and set back to its state, has its original text_lines.
C16_DisableLossless ==
    \A i \in 1..Len(out_filter.document) :
        LET rule == out_filter.document[i]
        IN (rule.kind = "rule" /\ rule.visibility \in {"show", "hide"}
              /\ RuleIndex(out_filter.document, rule.type_tag, rule.tier_tag) = i) =>
            \A n \in 1..MaxDisables :
                LET disabled == DisabledTimes(out_filter, rule.type_tag, rule.tier_tag, n)
                    restored == AfterCall(disabled, rule.type_tag, rule.tier_tag,
                                          rule.visibility)
                IN /\ disabled.document[i].visibility = "disable"
                   /\ restored.document[i].text_lines = rule.text_lines
                   /\ restored = out_filter

\* a hidden rule with a comment line of its own was disabled by one call and
\* hidden again by the next
C16_Witness ==
    /\ RuleVisibilitySet
    /\ c_n = 2
    /\ c_last.params[3] = <<"hide">>
    /\ AddressedRule(c_last.filter_before).visibility = "disable"
    /\ AddressedRule(out_filter).text_lines =
          << <<"Hide", CommentMarker, TagMarker, "currency", "t2">>,
             <<CommentMarker, "note">>,
             <<"Class", "Currency">> >>


MatchCalled == c_last.ok /\ c_last.name = <<"get_rule_matching_item">>

\* the tags the output names, and the position of the rule that has them
ReportedTags == <<Tail(cli_output[1]), Tail(cli_output[2])>>

ReportedIndex == RuleIndex(out_filter.document, ReportedTags[1], ReportedTags[2])

\* the rule is enabled, its conditions are all supported and hold of the item
Matches(rule, item_text_lines) ==
    /\ rule.kind = "rule"
    /\ rule.visibility # "disable"
    /\ IsSupported(rule)
    /\ ConditionsHold(rule, item_text_lines)

ChaosStatus(filter, item_slot) == IsChaosRecipeEnabledForCall(filter, <<item_slot>>).output

\* C21: the chaos-recipe toggles are independent per item slot: after
\* set_chaos_recipe_enabled_for <slot> <flag>, is_chaos_recipe_enabled_for
\* <slot> writes 1 for a flag other than 0 and 0 for 0, every other slot's
\* status is as before, and a query writes the status the filter file holds.
C21_ChaosSlotsIndependent ==
    /\ (c_last.ok /\ c_last.name = <<"set_chaos_recipe_enabled_for">>) =>
          /\ c_last.params[2] = <<"0">> => ChaosStatus(out_filter, c_last.params[1]) = << <<"0">> >>
          /\ c_last.params[2] # <<"0">> => ChaosStatus(out_filter, c_last.params[1]) = << <<"1">> >>
          /\ \A item_slot \in kChaosRecipeItemSlotSet \ {c_last.params[1]} :
                ChaosStatus(out_filter, item_slot) = ChaosStatus(c_last.filter_before, item_slot)
    /\ (c_last.ok /\ c_last.name = <<"is_chaos_recipe_enabled_for">>) =>
          /\ cli_output = ChaosStatus(out_filter, c_last.params[1])
          /\ out_filter = c_last.filter_before

\* two slots were enabled and the first of them was disabled again: the other
\* stays enabled
C21_Witness ==
    /\ c_last.ok
    /\ c_last.name = <<"set_chaos_recipe_enabled_for">>
    /\ c_n = 3
    /\ c_last.params[2] = <<"0">>
    /\ ChaosStatus(c_last.filter_before, c_last.params[1]) = << <<"1">> >>
    /\ \E item_slot \in kChaosRecipeItemSlotSet :
          ChaosStatus(out_filter, item_slot) = << <<"1">> >>


\* the replay loop of an import run on the filter with the changes file
Replayed(filter) ==
    ReplayChanges([ok |-> TRUE, filter |-> filter, saved |-> filter,
                   changes |-> changes_file, output |-> EmptyText, events |-> <<>>],
                  changes_file, 1, <<>>)

\* C22: the changes file is an idempotent replay script: replayed on the
\* filter a replay of it gave, it gives that filter again; from the base filter
\* and from the output filter.
C22_ReplayIdempotent ==
    \A filter \in {BaseFilter, out_filter} :
        Replayed(filter).ok =>
            /\ Replayed(Replayed(filter).filter).ok
            /\ Replayed(Replayed(filter).filter).filter = Replayed(filter).filter

\* a script of three lines of three commands, a currency move among them,
\* that changes the base filter
C22_Witness ==
    /\ Len(changes_file) = 3
    /\ Replayed(BaseFilter).ok
    /\ Replayed(BaseFilter).filter # BaseFilter
    /\ GetTierOfCurrency(Replayed(BaseFilter).filter, ChaosOrb) = 2
    /\ Cardinality({Head(ShlexSplit(changes_file[i]).tokens) : i \in 1..3}) = 3


\* C23: the exit-code file holds -1 from the start of an invocation until
\* main_impl has returned or raised and the final code is written; the final
\* code is 0 if main_impl returned and 1 if it raised, never 0 after a failure.
C23_ExitCodeProtocol ==
    /\ q_pc \in {"main_impl", "returned", "raised"} => q_line = kInProgressExitCode
    /\ (q_pc = "idle" /\ c_n > 0) =>
          /\ q_line = <<"0">> <=> c_last.ok
          /\ q_line = <<"1">> <=> ~c_last.ok
    /\ (q_pc = "returned") => c_last.ok
    /\ (q_pc = "raised") => ~c_last.ok

\* an invocation that raised ValueError ended after one that succeeded
C23_Witness ==
    /\ q_pc = "idle"
    /\ c_n = 2
    /\ ~c_last.ok
    /\ c_last.params = <<ChaosOrb, <<"a">>>>
    /\ c_last.changes_before # <<>>
    /\ q_line = <<"1">>


\* the text a followed by the text b
TextAppend(a, b) == SubSeq(a, 1, Len(a) - 1) \o << a[Len(a)] \o Head(b) >> \o Tail(b)

\* the non-blank lines of the input file, in order
NonBlankLines(input_file) == SelectSeq(input_file, LAMBDA line : Strip(line) # <<>>)

\* the outputs of the batch's commands from the i-th event on, each followed
\* by the line '@', after the text
RECURSIVE OutputsFrom(_, _)
OutputsFrom(i, text) ==
    IF i > Len(Events) THEN text
    ELSE IF i \notin BatchCallEvents THEN OutputsFrom(i + 1, text)
    ELSE LET output == Branch(Events[i].before, Head(Events[i].tokens),
                              Tail(Events[i].tokens), c_last.input).output
         IN OutputsFrom(i + 1, TextAppend(TextAppend(text, output),
                                          << <<>>, <<"@">>, <<>> >>))

\* the command lines of the batch's events, in order
BatchEventTokens ==
    LET RECURSIVE From(_)
        From(i) == IF i > Len(Events) THEN <<>>
                   ELSE IF i \in BatchCallEvents
                   THEN <<<<Head(Events[i].tokens), Len(Events[i].tokens)>>>> \o From(i + 1)
                   ELSE From(i + 1)
    IN From(1)

\* C24: after a run_batch that completes, the output file is the outputs of
\* the commands of the non-blank input lines, in input order, each followed by
\* a line '@', and nothing else; it has one '@' line per command; a mutating
\* command's output is empty.
C24_BatchOutput ==
    CompletedBatch =>
        LET lines == NonBlankLines(c_last.input)
        IN /\ cli_output = OutputsFrom(1, EmptyText)
           /\ Cardinality({i \in 1..Len(cli_output) : cli_output[i] = <<"@">>}) = Len(lines)
           /\ Len(BatchEventTokens) = Len(lines)
           /\ \A k \in 1..Len(lines) :
                 /\ BatchEventTokens[k][1] = Head(ShlexSplit(lines[k]).tokens)
                 /\ BatchEventTokens[k][2] >= Len(ShlexSplit(lines[k]).tokens)
           /\ \A i \in BatchCallEvents :
                 Events[i].mutator =>
                     Branch(Events[i].before, Head(Events[i].tokens),
                            Tail(Events[i].tokens), c_last.input).output = EmptyText

\* a batch of two queries of several output lines around a mutator and a
\* blank line, run after another command had written the output file
C24_Witness ==
    /\ CompletedBatch
    /\ c_n = 2
    /\ Len(c_last.input) = 4
    /\ Len(NonBlankLines(c_last.input)) = 3
    /\ Len(cli_output) > 6
    /\ c_last.changes_before # <<>>
    /\ \E i \in BatchCallEvents : Events[i].mutator


\* C25: when "TEST" is the first argument after the script name, the function
\* call that follows it is dispatched and the run succeeds, for each command
\* of the test suite
C25_TestCallsSucceed ==
    (q_input # <<>> /\ Head(q_input) = <<"TEST">>) => c_last.ok


ProfileCalled(function_name) == c_last.name = <<function_name>> /\ c_last.ok

\* a step that makes profile_name exist is a creation of it or a rename to it
AppearsByCreation(profile_name) ==
    (~ProfileExists(ProfileStore, profile_name) /\ ProfileExists(ProfileStore', profile_name))
        => \/ /\ c_last'.name = <<"create_new_profile">>
              /\ c_last'.params = <<profile_name>>
           \/ /\ c_last'.name = <<"rename_profile">>
              /\ c_last'.params[2] = profile_name

ProfileLifecycle ==
    /\ c_n = 0 => \A p \in ProfileNames : ~ProfileExists(ProfileStore, p)
    /\ ProfileCalled("create_new_profile") => ProfileExists(ProfileStore, c_last.params[1])
    /\ (ProfileCalled("rename_profile") /\ c_last.params[1] # c_last.params[2]) =>
          /\ ~ProfileExists(ProfileStore, c_last.params[1])
          /\ ProfileExists(ProfileStore, c_last.params[2])
    /\ ProfileCalled("delete_profile") => ~ProfileExists(ProfileStore, c_last.params[1])

\* C26: no profile exists before it is created (a profile comes to exist only
\* by create_new_profile of it or a rename to it); after CreateNewProfile(p) p
\* exists; after RenameProfile(p, q) p does not exist and q does; after
\* DeleteProfile(q) q does not exist
C26_ProfileLifecycle ==
    /\ []ProfileLifecycle
    /\ [][\A p \in ProfileNames : AppearsByCreation(p)]_vars

\* a profile was created, renamed and the renamed profile deleted
C26_Witness ==
    /\ ProfileCalled("delete_profile")
    /\ c_last.params = << <<"RenamedProfile">> >>
    /\ c_n = 3
    /\ q_input = <<>>


\* C27: a newly created profile becomes the active profile; after
\* SetActiveProfile(p) the active profile is p; GetAllProfileNames (and the
\* output of get_all_profile_names) lists the active profile first and holds
\* every existing profile, each once; after a profile is deleted the active
\* profile is not the deleted profile, nor any profile that does not exist
C27_ActiveProfile ==
    /\ ProfileCalled("delete_profile") =>
          /\ GetActiveProfileName(ProfileStore) # c_last.params[1]
          /\ GetActiveProfileName(ProfileStore) \in Range(q_input) \cup {None}
    /\ (ProfileCalled("create_new_profile") /\ cli_output = << <<"1">> >>) =>
          GetActiveProfileName(ProfileStore) = c_last.params[1]
    /\ ProfileCalled("set_active_profile") =>
          GetActiveProfileName(ProfileStore) = c_last.params[1]
    /\ q_input # <<>> =>
          /\ Head(GetAllProfileNames(ProfileStore)) = GetActiveProfileName(ProfileStore)
          /\ Range(GetAllProfileNames(ProfileStore)) = Range(q_input)
          /\ Len(GetAllProfileNames(ProfileStore)) = Len(q_input)
    /\ (ProfileCalled("get_all_profile_names") /\ q_input # <<>>) =>
          cli_output = GetAllProfileNames(ProfileStore)

\* two profiles were created and the active one deleted: the other is active
C27_Witness ==
    /\ ProfileCalled("delete_profile")
    /\ c_last.params = << <<"OtherProfile">> >>
    /\ c_n = 3
    /\ q_input = <<kTestProfileName>>
    /\ q_line = kTestProfileName

\* C28: create_new_profile on a name that exists changes neither the profiles
\* nor the active profile and outputs "0"; on a new name it creates the
\* profile and outputs "1"
C28_CreateExistingProfile ==
    [][(c_last'.name = <<"create_new_profile">> /\ c_last'.ok) =>
          IF ProfileExists(ProfileStore, c_last'.params[1])
          THEN /\ cli_output' = << <<"0">> >>
               /\ q_input' = q_input
               /\ q_line' = q_line
          ELSE /\ cli_output' = << <<"1">> >>
               /\ q_input' = Append(q_input, c_last'.params[1])
               /\ ProfileExists(ProfileStore', c_last'.params[1])]_vars

\* create_new_profile was run on an existing profile that is not the active one
C28_Witness ==
    /\ ProfileCalled("create_new_profile")
    /\ cli_output = << <<"0">> >>
    /\ ProfileExists(ProfileStore, c_last.params[1])
    /\ q_line # c_last.params[1]
    /\ Len(q_input) = 2


\* the invocation is a mutating command with the right number of parameters
\* and a parameter value that is no tier number, or no visibility
InvalidParameterValue(argv) ==
    \/ /\ Len(argv) = 3
       /\ Head(argv) = <<"set_currency_to_tier">>
       /\ ~IsInt(argv[3])
    \/ /\ Len(argv) = 4
       /\ Head(argv) = <<"set_rule_visibility">>
       /\ ~(Len(argv[4]) = 1 /\ argv[4][1] \in Visibilities)

\* C29: a directly issued mutating command with an invalid parameter value (a
\* tier that is no number, an unknown visibility) fails: main_impl raises, the
\* exit code is 1, the output filter is not saved and the changes file is as
\* it was before the command
C29_InvalidValueFails ==
    (q_pc \in {"idle", "raised", "returned"} /\ c_n > 0 /\ InvalidParameterValue(q_input)) =>
        /\ ~c_last.ok
        /\ q_pc # "returned"
        /\ q_pc = "idle" => q_line = <<"1">>
        /\ c_last.events = <<>>
        /\ out_filter = c_last.filter_before
        /\ changes_file = c_last.changes_before

\* an unknown visibility was given after a command that changed the filter
C29_Witness ==
    /\ q_pc = "idle"
    /\ InvalidParameterValue(q_input)
    /\ Head(q_input) = <<"set_rule_visibility">>
    /\ q_line = <<"1">>
    /\ changes_file # <<>>
    /\ out_filter # BaseFilter


\* the token lists of the lines of a changes file whose key is not key, in order
OtherLines(file, key) ==
    SelectSeq([i \in 1..Len(file) |-> LineTokens(file[i])],
              LAMBDA function_tokens : KeyOf(function_tokens) # key)

RECURSIVE IsSubsequence(_, _)
\* the elements of a occur in b, in the order of a
IsSubsequence(a, b) ==
    IF a = <<>> THEN TRUE
    ELSE IF b = <<>> THEN FALSE
    ELSE IF Head(a) = Head(b) THEN IsSubsequence(Tail(a), Tail(b))
    ELSE IsSubsequence(a, Tail(b))

\* C30: merging a command with key K into the changes file changes neither the
\* value nor the relative order of a line whose (command name, match key) is
\* not K: the lines of other keys that the file held before
\* UpdateProfileChangesFile are in the file after it, with the same tokens and
\* in the same order
C30_MergeLeavesOtherKeys ==
    (l_hist # <<>> /\ l_ok) =>
        IsSubsequence(OtherLines(l_before, KeyOf(l_hist[Len(l_hist)])),
                      [i \in 1..Len(changes_file) |-> LineTokens(changes_file[i])])


\* the first n tokens of a token list
Prefix(function_tokens, n) == SubSeq(function_tokens, 1, n)

\* the lines between two lines that agree in their first n tokens agree with
\* them in these tokens
Contiguous(flat, n) ==
    \A i, j, k \in 1..Len(flat) :
        (i < j /\ j < k /\ Len(flat[i]) > n /\ Len(flat[k]) > n
              /\ Prefix(flat[i], n) = Prefix(flat[k], n))
            => Len(flat[j]) > n /\ Prefix(flat[j], n) = Prefix(flat[i], n)

\* two lines that agree in their first n - 1 tokens and differ in the n-th
\* are in the order in which their first n tokens were first merged
FirstInsertionOrder(flat, hist, n) ==
    \A i, j \in 1..Len(flat) :
        (i < j /\ Len(flat[i]) > n /\ Len(flat[j]) > n
              /\ Prefix(flat[i], n - 1) = Prefix(flat[j], n - 1)
              /\ flat[i][n] # flat[j][n])
            => FirstSeen(hist, Prefix(flat[i], n)) < FirstSeen(hist, Prefix(flat[j], n))

\* C31: the flattened changes dict is a depth-first traversal: the lines of
\* one command name are contiguous (and so are, within a name, the lines of one
\* first parameter), the names are in the order of their first occurrence, the
\* keys within one name and within one first-parameter subtree are in
\* first-insertion order, and no key has two lines
C31_DepthFirstFlatten ==
    /\ FirstInsertionOrder(Flatten(changes_dict), t_hist, 1)
    /\ FirstInsertionOrder(Flatten(changes_dict), t_hist, 2)
    /\ FirstInsertionOrder(Flatten(changes_dict), t_hist, 3)
    /\ Contiguous(Flatten(changes_dict), 1)
    /\ Contiguous(Flatten(changes_dict), 2)
    /\ \A i, j \in 1..Len(Flatten(changes_dict)) :
          i < j => KeyOf(Flatten(changes_dict)[i]) # KeyOf(Flatten(changes_dict)[j])
    /\ {KeyOf(Flatten(changes_dict)[i]) : i \in 1..Len(Flatten(changes_dict))}
          = {KeyOf(t_hist[h]) : h \in 1..Len(t_hist)}

\* a command keyed on one parameter, a command keyed on its name alone and the
\* first command with another parameter were merged: the third is flattened
\* before the second; and two keys of one first-parameter subtree were merged
C31_Witness ==
    /\ Len(t_hist) = 4
    /\ KeyOf(t_hist[1]) = <<<<"set_currency_to_tier">>, ChaosOrb>>
    /\ KeyOf(t_hist[2]) = <<<<"set_hide_maps_below_tier">>>>
    /\ KeyOf(t_hist[3]) = <<<<"set_currency_to_tier">>, ChromaticOrb>>
    /\ KeyOf(t_hist[4]) = <<<<"set_basetype_visibility">>, HubrisCirclet, <<"1">>>>
    /\ KeysOf(Flatten(changes_dict))
          = <<KeyOf(t_hist[1]), KeyOf(t_hist[3]), KeyOf(t_hist[2]), KeyOf(t_hist[4])>>


\* the line reads as a command name followed by NumParamsForMatch + 1 parameters
HasAllParameters(line) ==
    /\ ShlexSplit(Strip(line)).ok
    /\ LineTokens(line) # <<>>
    /\ HasNumParamsForMatch(LineTokens(line)[1])
    /\ Len(LineTokens(line)) = MatchArity(LineTokens(line)) + 2

\* C32: every line of the changes file has exactly NumParamsForMatch + 1
\* parameters after the command name (a command issued without its optional
\* parameter is recorded with the default), so that compaction, which reads
\* the name and NumParamsForMatch + 1 parameters of a line, drops none
C32_RecordedWithAllParameters ==
    \A i \in 1..Len(changes_file) : HasAllParameters(changes_file[i])


CompletedImport == c_last.ok /\ c_last.name \in ImportNames

\* C33: a completed import_downloaded_filter or load_input_filter runs the
\* lines of the changes file in file order, each with suppressed output and
\* each on the filter the line before left in memory (the first on the parsed
\* base filter); the changes file is never written; the filter is saved once,
\* after the last line, and nothing but the import's own empty output is in
\* the output file
C33_ReplayFrame ==
    CompletedImport =>
        /\ Len(Events) = Len(c_last.changes_before) + 2
        /\ \A i \in 1..Len(c_last.changes_before) :
              /\ Events[i].ev = "call"
              /\ Events[i].replay
              /\ Events[i].in_batch
              /\ Events[i].tokens = ShlexSplit(c_last.changes_before[i]).tokens
              /\ Events[i].before = IF i = 1 THEN BaseFilter ELSE Events[i - 1].after
              /\ Events[i].changes = c_last.changes_before
        /\ SaveEvents = {Len(c_last.changes_before) + 1}
        /\ \A s \in SaveEvents :
              /\ Events[s].after = IF s = 1 THEN BaseFilter ELSE Events[s - 1].after
              /\ out_filter = [Events[s].after EXCEPT !.document = Parse(Serialize(@))]
        /\ changes_file = c_last.changes_before
        /\ cli_output = EmptyText

\* an import replayed two logged commands that changed the filter
C33_Witness ==
    /\ CompletedImport
    /\ Len(c_last.changes_before) = 2
    /\ Events[1].after # BaseFilter
    /\ Events[2].after # Events[1].after


\* a function that does not modify the filter, imports and run_batch aside
IsQuery(function_name) ==
    /\ IsFunctionName(function_name)
    /\ ~ModifiesFilter(function_name)
    /\ function_name \notin ImportNames \cup {<<"run_batch">>}

RECURSIVE MergedCalls(_, _, _)
\* the changes file after the mutating calls among events, from the i-th on,
\* were merged into file one after the other
MergedCalls(file, events, i) ==
    IF i > Len(events) THEN file
    ELSE MergedCalls(IF events[i].mutator
                     THEN UpdateProfileChangesFile(file, Head(events[i].tokens),
                                                   Tail(events[i].tokens)).file
                     ELSE file,
                     events, i + 1)

\* run_batch raised in one of its lines
FailedBatch == c_last.name = <<"run_batch">> /\ c_last.params = <<>> /\ ~c_last.ok

\* C35: when a line of a batch fails, the invocation ends with exit code 1 and
\* the output filter is not saved, but the mutating commands of the lines
\* before it are merged into the changes file
C35_FailedBatchKeepsLog ==
    FailedBatch =>
        /\ changes_file = MergedCalls(c_last.changes_before, Events, 1)
        /\ ExitCode(c_last.ok) = <<"1">>
        /\ \A i \in DOMAIN Events : Events[i].ev = "call" /\ Events[i].in_batch
        /\ out_filter = c_last.filter_before

\* the second line of a batch failed after a mutating first line: the changes
\* file holds a command that the saved filter does not reflect
C35_Witness ==
    /\ FailedBatch
    /\ Len(Events) = 1
    /\ Events[1].mutator
    /\ Events[1].after # Events[1].before
    /\ changes_file # c_last.changes_before
    /\ out_filter = BaseFilter


\* the line names import_downloaded_filter, load_input_filter or run_batch
NamesNesting(line) ==
    /\ ShlexSplit(line).ok
    /\ ShlexSplit(line).tokens # <<>>
    /\ Head(ShlexSplit(line).tokens) \in NestingNames

\* C36: a line of the batch input file or of the changes file that names
\* import_downloaded_filter, load_input_filter or run_batch is never
\* dispatched: the invocation that reaches it fails, so that a completed batch
\* or import made one call per line and no call below a line
C36_NoNestedDispatch ==
    /\ \A i \in DOMAIN Events : Events[i].in_batch => Events[i].tokens[1] \notin NestingNames
    /\ CompletedBatch =>
          /\ \A i \in 1..Len(c_last.input) : ~NamesNesting(c_last.input[i])
          /\ Cardinality(BatchCallEvents) = Len(NonBlankLines(c_last.input))
    /\ CompletedImport =>
          /\ \A i \in 1..Len(c_last.changes_before) : ~NamesNesting(c_last.changes_before[i])
          /\ Cardinality(BatchCallEvents) = Len(c_last.changes_before)
    /\ (c_last.name = <<"run_batch">> /\ c_last.params = <<>> /\ c_n > 0
          /\ \E i \in 1..Len(c_last.input) : NamesNesting(c_last.input[i])) => ~c_last.ok
    /\ (c_last.name \in ImportNames /\ c_last.params = <<>> /\ c_n > 0
          /\ \E i \in 1..Len(c_last.changes_before) : NamesNesting(c_last.changes_before[i]))
          => ~c_last.ok

\* a batch failed at its second line, load_input_filter, after its first line
\* had been run
C36_Witness ==
    /\ FailedBatch
    /\ Len(c_last.input) = 3
    /\ NamesNesting(c_last.input[2])
    /\ Len(Events) = 1


\* the parameter is read back from the changes file as it was written
SurvivesQuoting(param) ==
    ShlexSplit(QuoteStringIfRequired(param)) = [ok |-> TRUE, tokens |-> <<param>>]

\* every parameter of every call made so far survives the quoting round trip
HistorySurvivesQuoting ==
    \A h \in 1..Len(l_hist) : \A n \in 2..Len(l_hist[h]) : SurvivesQuoting(l_hist[h][n])

\* the lines of a changes file whose key is not key, as they are written
OtherTextLines(file, key) ==
    SelectSeq(file, LAMBDA line : KeyOf(LineTokens(line)) # key)

\* C37: for parameters that survive the quoting round trip, a mutating command
\* whose key and value are already recorded leaves the changes file identical,
\* and merging any command into a file the tool has written leaves every line
\* of another key as it was, in the same order
C37_MergeIdempotent ==
    (l_hist # <<>> /\ HistorySurvivesQuoting) =>
        /\ (\E i \in 1..Len(l_before) : LineTokens(l_before[i]) = l_hist[Len(l_hist)])
              => changes_file = l_before
        /\ l_ok
        /\ OtherTextLines(changes_file, KeyOf(l_hist[Len(l_hist)]))
              = OtherTextLines(l_before, KeyOf(l_hist[Len(l_hist)]))

\* a command was issued again with the value it has in a file of two lines, one
\* of them holding a quoted parameter
C37_Witness ==
    /\ HistorySurvivesQuoting
    /\ Len(l_hist) = 3
    /\ l_hist[3] = l_hist[1]
    /\ KeyOf(l_hist[2]) # KeyOf(l_hist[1])
    /\ Len(l_before) = 2
    /\ changes_file = l_before
    /\ \E i \in 1..2 : \E n \in 1..Len(l_before[i]) : l_before[i][n] = DQ


\* the tokens of the last call as entered, the default item slot filled in
EnteredSocketCall ==
    <<c_last.name>> \o (IF Len(c_last.params) = 2
                        THEN <<c_last.params[1], <<"any">>, c_last.params[2]>>
                        ELSE c_last.params)

\* the indices of the lines of a changes file that hold exactly this key
LinesOfKey(file, key) == {i \in 1..Len(file) : KeyOf(LineTokens(file[i])) = key}

\* two lines hold the same socket rule, written differently
SameRuleOtherSpelling(line1, line2) ==
    /\ KeyOf(LineTokens(line1)) # KeyOf(LineTokens(line2))
    /\ SocketRule(LineTokens(line1)[2], LineTokens(line1)[3])
          = SocketRule(LineTokens(line2)[2], LineTokens(line2)[3])

\* C38: the key of a recorded add_remove_socket_rule is the socket string and
\* the item slot exactly as entered: the call has its one line, holding the
\* tokens as entered, at the place the key already had or, for a new key, a
\* new line; every line of another key, another spelling of the same rule
\* among them, stays as it was and in the same order, so that spellings are
\* replayed in the order in which they were first recorded
C38_KeysAsEntered ==
    (c_last.ok /\ c_last.name = <<"add_remove_socket_rule">>) =>
        /\ \E i \in 1..Len(changes_file) : LineTokens(changes_file[i]) = EnteredSocketCall
        /\ Cardinality(LinesOfKey(changes_file, KeyOf(EnteredSocketCall))) = 1
        /\ LinesOfKey(c_last.changes_before, KeyOf(EnteredSocketCall)) # {}
              => /\ LinesOfKey(changes_file, KeyOf(EnteredSocketCall))
                       = LinesOfKey(c_last.changes_before, KeyOf(EnteredSocketCall))
                 /\ Len(changes_file) = Len(c_last.changes_before)
        /\ LinesOfKey(c_last.changes_before, KeyOf(EnteredSocketCall)) = {}
              => Len(changes_file) = Len(c_last.changes_before) + 1
        /\ OtherTextLines(changes_file, KeyOf(EnteredSocketCall))
              = OtherTextLines(c_last.changes_before, KeyOf(EnteredSocketCall))

\* the file holds two spellings of one socket rule in two lines, and the
\* spelling recorded first was issued again last, with another flag: its line
\* is still the first
C38_Witness ==
    /\ c_last.ok /\ c_last.name = <<"add_remove_socket_rule">>
    /\ c_n = 3
    /\ Len(changes_file) = 2
    /\ SameRuleOtherSpelling(changes_file[1], changes_file[2])
    /\ LineTokens(changes_file[1]) = EnteredSocketCall
    /\ changes_file[1] # c_last.changes_before[1]
    /\ changes_file[2] = c_last.changes_before[2]

===========================================================================
